---- MODULE Spec2Model ----
(***************************************************************************)
(* Model of schwab-csv-tools: the transfer matcher of merge_transactions   *)
(* (filter_journaled_shares and its helpers), the symbol resolver of       *)
(* postprocess (SymbolTracker, driven by process_csv), the rounding fix,   *)
(* main of merge_transactions and the award files of merge_awards.         *)
(*                                                                         *)
(* Python strings are sequences of one-character strings, so that upper(), *)
(* strip(), replace(), float() and the regular expressions are computed    *)
(* character by character.  Numbers are fixed-point integers counting      *)
(* units of 10^-FracDigits.                                                *)
(***************************************************************************)
EXTENDS Integers, Sequences, FiniteSets, Bags, TLC

VARIABLES
    rows,             \* filter_journaled_shares: argument rows
    keep_unmatched,   \* filter_journaled_shares: argument keep_unmatched
    account_numbers,  \* filter_journaled_shares: argument account_numbers
    tm_pc,            \* "call" before the call, then "returned" or "raised"
    result,           \* the list filter_journaled_shares returns
    error,            \* the ValidationError raised, as the rows its message lists
    journaled_pairs,  \* pairs (i, j) added by _match_journaled_shares
    journal_pairs,    \* pairs (i, j) added by _match_journal_transfers
    sr_input,         \* process_csv: the rows as loaded from the input file
    sr_rows,          \* process_csv: rows (dicts, changed in place)
    sr_next,          \* process_csv: position of the resolver loop in rows
    mapping,          \* SymbolTracker.mapping
    tracker,          \* the remaining fields of SymbolTracker
    gs_input,         \* generate_symbol_from_description: argument description
    gs_output,        \* generate_symbol_from_description: the symbol returned
    gs_pc,            \* "call" before the call, then "returned"
    rf_input,         \* RoundingFixer.process_rows: the rows before the first run
    rf_rows,          \* RoundingFixer.process_rows: rows (dicts, changed in place)
    rf_next,          \* position of the loop of process_rows in rows
    rf_fixes,         \* RoundingFixer.fixes
    rf_run,           \* 1 in the first run over the rows, 2 in the run over its output
    rf_first,         \* the rows as the first run left them
    md_files,         \* main: the input files, in the order of the command line
    md_keep,          \* main: args.keep_unmatched_transfers
    md_pc,            \* main: the step to run next, "exit" after the return
    md_headers,       \* main: all_headers
    md_rows,          \* main: all_rows
    md_accounts,      \* main: account_numbers
    md_written,       \* the calls of write_merged_csv: headers and rows given
    md_exit,          \* <<>> while main runs, then the value it returns
    aw_file,          \* the award file: its header row and its data lines
    aw_pc,            \* "read", then "write" or "raised", then "written"
    aw_merged,        \* the list read_schwab_awards_csv returns
    aw_written        \* the data lines write_merged_awards_csv writes

vars == <<rows, keep_unmatched, account_numbers, tm_pc, result, error,
          journaled_pairs, journal_pairs,
          sr_input, sr_rows, sr_next, mapping, tracker,
          gs_input, gs_output, gs_pc,
          rf_input, rf_rows, rf_next, rf_fixes, rf_run, rf_first,
          md_files, md_keep, md_pc, md_headers, md_rows, md_accounts,
          md_written, md_exit,
          aw_file, aw_pc, aw_merged, aw_written>>

tm_vars == <<rows, keep_unmatched, account_numbers, tm_pc, result, error,
             journaled_pairs, journal_pairs>>

sr_vars == <<sr_input, sr_rows, sr_next, mapping, tracker>>

gs_vars == <<gs_input, gs_output, gs_pc>>

rf_vars == <<rf_input, rf_rows, rf_next, rf_fixes, rf_run, rf_first>>

md_vars == <<md_files, md_keep, md_pc, md_headers, md_rows, md_accounts,
             md_written, md_exit>>

aw_vars == <<aw_file, aw_pc, aw_merged, aw_written>>

-----------------------------------------------------------------------------
(* Bounds of the model *)

\* longest row list handed to filter_journaled_shares
MaxRows == 3

\* most input files given to main of merge_transactions
MaxFiles == 2

\* longest row list of the file given to main alone
MaxDedupRows == 4

\* most awards (pairs of lines) in the award file
MaxAwards == 2

\* longest row list handed to the resolver loop of process_csv
MaxSrRows == 3

\* decimal places kept by the fixed-point numbers
FracDigits == 3

-----------------------------------------------------------------------------
(* Python strings and numbers *)

Digits == {"0", "1", "2", "3", "4", "5", "6", "7", "8", "9"}

Whitespace == {" ", "\t"}

DigitValue ==
    [c \in Digits |->
        CASE c = "0" -> 0 [] c = "1" -> 1 [] c = "2" -> 2 [] c = "3" -> 3
          [] c = "4" -> 4 [] c = "5" -> 5 [] c = "6" -> 6 [] c = "7" -> 7
          [] c = "8" -> 8 [] c = "9" -> 9]

UpperOf ==
    [a |-> "A", b |-> "B", c |-> "C", d |-> "D", e |-> "E", f |-> "F", g |-> "G",
     h |-> "H", i |-> "I", j |-> "J", k |-> "K", l |-> "L", m |-> "M", n |-> "N",
     o |-> "O", p |-> "P", q |-> "Q", r |-> "R", s |-> "S", t |-> "T", u |-> "U",
     v |-> "V", w |-> "W", x |-> "X", y |-> "Y", z |-> "Z"]

LowerOf ==
    [A |-> "a", B |-> "b", C |-> "c", D |-> "d", E |-> "e", F |-> "f", G |-> "g",
     H |-> "h", I |-> "i", J |-> "j", K |-> "k", L |-> "l", M |-> "m", N |-> "n",
     O |-> "o", P |-> "p", Q |-> "q", R |-> "r", S |-> "s", T |-> "t", U |-> "u",
     V |-> "v", W |-> "w", X |-> "x", Y |-> "y", Z |-> "z"]

\* str.upper()
upper(s) == [k \in 1..Len(s) |-> IF s[k] \in DOMAIN UpperOf THEN UpperOf[s[k]] ELSE s[k]]

\* str.lower()
lower(s) == [k \in 1..Len(s) |-> IF s[k] \in DOMAIN LowerOf THEN LowerOf[s[k]] ELSE s[k]]

RECURSIVE lstrip(_)
lstrip(s) ==
    IF s = <<>> THEN s
    ELSE IF Head(s) \in Whitespace THEN lstrip(Tail(s)) ELSE s

RECURSIVE rstrip(_)
rstrip(s) ==
    IF s = <<>> THEN s
    ELSE IF s[Len(s)] \in Whitespace THEN rstrip(SubSeq(s, 1, Len(s) - 1)) ELSE s

\* str.strip()
strip(s) == rstrip(lstrip(s))

\* s.replace(c, "") for a one-character c
remove_char(s, c) == SelectSeq(s, LAMBDA x : x # c)

\* pat in s
contains(s, pat) ==
    \E k \in 1..(Len(s) - Len(pat) + 1) : SubSeq(s, k, k + Len(pat) - 1) = pat

RECURSIVE Pow10(_)
Pow10(n) == IF n = 0 THEN 1 ELSE 10 * Pow10(n - 1)

\* one unit of the fixed-point numbers is 1 / Scale
Scale == Pow10(FracDigits)

RECURSIVE DigitsToInt(_)
DigitsToInt(s) ==
    IF s = <<>> THEN 0
    ELSE 10 * DigitsToInt(SubSeq(s, 1, Len(s) - 1)) + DigitValue[s[Len(s)]]

\* the digits of a fraction, cut or padded with zeros to FracDigits places
FractionToInt(s) ==
    DigitsToInt([k \in 1..FracDigits |-> IF k <= Len(s) THEN s[k] ELSE "0"])

Abs(x) == IF x < 0 THEN -x ELSE x

\* a failed parse: ValueError in float(), None in the parse helpers
NoNumber == [ok |-> FALSE, v |-> 0]

Number(x) == [ok |-> TRUE, v |-> x]

\* float(s) for plain decimal notation: surrounding blanks, an optional sign,
\* digits with at most one point and at least one digit; anything else in the
\* alphabet of the model raises ValueError
float(s) ==
    LET t == strip(s)
        signed == t # <<>> /\ Head(t) \in {"-", "+"}
        body == IF signed THEN Tail(t) ELSE t
        dots == {k \in 1..Len(body) : body[k] = "."}
        well_formed ==
            /\ \A k \in 1..Len(body) : body[k] \in Digits \cup {"."}
            /\ Cardinality(dots) <= 1
            /\ \E k \in 1..Len(body) : body[k] \in Digits
        dot == IF dots = {} THEN Len(body) + 1 ELSE CHOOSE k \in dots : TRUE
        whole == DigitsToInt(SubSeq(body, 1, dot - 1))
        frac == FractionToInt(SubSeq(body, dot + 1, Len(body)))
        magnitude == whole * Scale + frac
    IN  IF ~well_formed THEN NoNumber
        ELSE Number(IF signed /\ Head(t) = "-" THEN -magnitude ELSE magnitude)

\* common.parse_quantity
parse_quantity(qty_str) ==
    IF qty_str = <<>> \/ strip(qty_str) = <<>> THEN NoNumber
    ELSE float(remove_char(qty_str, ","))

\* merge_transactions._parse_amount
_parse_amount(amt_str) ==
    IF amt_str = <<>> \/ strip(amt_str) = <<>> THEN NoNumber
    ELSE float(remove_char(remove_char(amt_str, "$"), ","))

\* the tolerance 0.01 of both match predicates, in fixed-point units
MatchTolerance == Scale \div 100

\* extract_journal_account returns None: no account
NoAccount == <<>>

\* re.search(r"\.{3}(\d{3,4})", desc): positions where three dots are followed
\* by at least three digits
AccountMatches(desc) ==
    {k \in 1..(Len(desc) - 5) :
        /\ \A d \in 0..2 : desc[k + d] = "."
        /\ \A d \in 3..5 : desc[k + d] \in Digits}

\* common.extract_journal_account: group 1 of the leftmost match, three digits
\* and a fourth one when it follows
extract_journal_account(desc) ==
    LET found == AccountMatches(desc)
    IN  IF found = {} THEN NoAccount
        ELSE LET k == CHOOSE x \in found : \A y \in found : x <= y
                 last == IF k + 6 <= Len(desc) /\ desc[k + 6] \in Digits
                         THEN k + 6 ELSE k + 5
             IN  SubSeq(desc, k + 3, last)

-----------------------------------------------------------------------------
(* Transaction rows: one record per CSV row, every field the raw string *)

Row(date, action, symbol, description, price, quantity, fees, amount) ==
    [Date |-> date, Action |-> action, Symbol |-> symbol,
     Description |-> description, Price |-> price, Quantity |-> quantity,
     Fees |-> fees, Amount |-> amount]

STR_JOURNALED_SHARES ==
    <<"J","o","u","r","n","a","l","e","d"," ","S","h","a","r","e","s">>
STR_JOURNAL ==
    <<"J","o","u","r","n","a","l">>
STR_JOURNAL_TO ==
    <<"J","O","U","R","N","A","L"," ","T","O">>
STR_JOURNAL_FRM ==
    <<"J","O","U","R","N","A","L"," ","F","R","M">>

-----------------------------------------------------------------------------
(* merge_transactions: the transfer matcher *)

\* account_numbers is None, or a set of account numbers
AccountsNone == [given |-> FALSE, numbers |-> {}]

Accounts(S) == [given |-> TRUE, numbers |-> S]

\* the truth value of account_numbers in "if account_numbers"
Truthy(accounts) == accounts.given /\ accounts.numbers # {}

\* the indices held by matched_indices after the pairs were added
PairIndices(pairs) == {p[1] : p \in pairs} \cup {p[2] : p \in pairs}

\* the elements of s at the indices of idx, by increasing index
RECURSIVE AtIndices(_, _)
AtIndices(s, idx) ==
    IF s = <<>> THEN <<>>
    ELSE LET init == AtIndices(SubSeq(s, 1, Len(s) - 1), idx)
         IN  IF Len(s) \in idx THEN Append(init, s[Len(s)]) ELSE init

\* the elements of s in reverse order
RECURSIVE Reverse(_)
Reverse(s) == IF s = <<>> THEN <<>> ELSE Append(Reverse(Tail(s)), Head(s))

\* _separate_by_action collecting other_rows with insert(0, row) for append(row)
SeparateOtherRowsReversed(all_rows) ==
    [journaled_rows |-> SelectSeq(all_rows, LAMBDA r : r.Action = STR_JOURNALED_SHARES),
     journal_rows |-> SelectSeq(all_rows, LAMBDA r :
                          r.Action # STR_JOURNALED_SHARES /\ r.Action = STR_JOURNAL),
     other_rows |-> Reverse(SelectSeq(all_rows, LAMBDA r :
                          r.Action # STR_JOURNALED_SHARES /\ r.Action # STR_JOURNAL))]

_separate_by_action(all_rows) ==
    [journaled_rows |-> SelectSeq(all_rows, LAMBDA r : r.Action = STR_JOURNALED_SHARES),
     journal_rows |-> SelectSeq(all_rows, LAMBDA r :
                          r.Action # STR_JOURNALED_SHARES /\ r.Action = STR_JOURNAL),
     other_rows |-> SelectSeq(all_rows, LAMBDA r :
                          r.Action # STR_JOURNALED_SHARES /\ r.Action # STR_JOURNAL)]

\* the test of _match_journaled_shares without the comparison of the prices
JournaledSharesMatchNoPrice(row1, qty1, row2, qty2) ==
    /\ row1.Symbol = row2.Symbol
    /\ row1.Date = row2.Date
    /\ Abs(qty1 + qty2) < MatchTolerance

\* the test of _match_journaled_shares on row1, row2 with parsed quantities
JournaledSharesMatch(row1, qty1, row2, qty2) ==
    /\ row1.Symbol = row2.Symbol
    /\ row1.Date = row2.Date
    /\ row1.Price = row2.Price
    /\ Abs(qty1 + qty2) < MatchTolerance

\* the inner loop of _match_journaled_shares leaving after its first row
JournaledSharesPartnerFirstRowOnly(journaled_rows, i, j, matched_indices) ==
    IF j > Len(journaled_rows) THEN 0
    ELSE LET qty1 == parse_quantity(journaled_rows[i].Quantity)
             qty2 == parse_quantity(journaled_rows[j].Quantity)
         IN  IF j \notin matched_indices /\ qty2.ok
                /\ JournaledSharesMatch(journaled_rows[i], qty1.v,
                                        journaled_rows[j], qty2.v)
             THEN j
             ELSE 0

\* the inner loop of _match_journaled_shares without the test of
\* matched_indices
JournaledSharesPartnerIgnoringMatched(journaled_rows, i, j, matched_indices) ==
    LET found == {n \in j..Len(journaled_rows) :
                     /\ parse_quantity(journaled_rows[n].Quantity).ok
                     /\ JournaledSharesMatch(
                            journaled_rows[i],
                            parse_quantity(journaled_rows[i].Quantity).v,
                            journaled_rows[n],
                            parse_quantity(journaled_rows[n].Quantity).v)}
    IN  IF found = {} THEN 0 ELSE CHOOSE n \in found : \A x \in found : n <= x

\* the inner loop of _match_journaled_shares from index j on: the index the
\* loop breaks at, 0 when it runs to the end
RECURSIVE JournaledSharesPartner(_, _, _, _)
JournaledSharesPartner(journaled_rows, i, j, matched_indices) ==
    IF j > Len(journaled_rows) THEN 0
    ELSE LET qty1 == parse_quantity(journaled_rows[i].Quantity)
             qty2 == parse_quantity(journaled_rows[j].Quantity)
             next == JournaledSharesPartner(journaled_rows, i, j + 1, matched_indices)
         IN  IF j \in matched_indices THEN next
             ELSE IF ~qty2.ok THEN next
             ELSE IF JournaledSharesMatch(journaled_rows[i], qty1.v,
                                          journaled_rows[j], qty2.v)
                  THEN j
                  ELSE next

\* the outer loop of _match_journaled_shares from index i on
RECURSIVE JournaledSharesScan(_, _, _)
JournaledSharesScan(journaled_rows, i, pairs) ==
    IF i > Len(journaled_rows) THEN pairs
    ELSE LET matched_indices == PairIndices(pairs)
             qty1 == parse_quantity(journaled_rows[i].Quantity)
             j == IF i \in matched_indices \/ ~qty1.ok THEN 0
                  ELSE JournaledSharesPartner(journaled_rows, i, i + 1, matched_indices)
         IN  JournaledSharesScan(journaled_rows, i + 1,
                                 IF j = 0 THEN pairs ELSE pairs \cup {<<i, j>>})

\* the pairs (i, j) that _match_journaled_shares adds to matched_indices
JournaledSharesPairs(journaled_rows) == JournaledSharesScan(journaled_rows, 1, {})

_match_journaled_shares(journaled_rows) == PairIndices(JournaledSharesPairs(journaled_rows))

\* the account check of _match_journal_transfers: TRUE when the pair is skipped
AccountsRejected(acct1, acct2, accounts) ==
    /\ Truthy(accounts)
    /\ acct1 # NoAccount /\ acct2 # NoAccount
    /\ (acct1 \notin accounts.numbers \/ acct2 \notin accounts.numbers)

\* the tests of _match_journal_transfers without the comparison of the dates
JournalMatchNoDate(row1, is_to, is_frm, amt1, row2, desc2, amt2) ==
    /\ \/ is_to /\ contains(desc2, STR_JOURNAL_FRM)
       \/ is_frm /\ contains(desc2, STR_JOURNAL_TO)
    /\ ~(Abs(amt1 + amt2) >= MatchTolerance)

\* the tests of _match_journal_transfers on row1, row2 before the account
\* check: same date, opposite types, amounts summing to about zero
JournalMatch(row1, is_to, is_frm, amt1, row2, desc2, amt2) ==
    /\ row1.Date = row2.Date
    /\ \/ is_to /\ contains(desc2, STR_JOURNAL_FRM)
       \/ is_frm /\ contains(desc2, STR_JOURNAL_TO)
    /\ ~(Abs(amt1 + amt2) >= MatchTolerance)

\* the inner loop of _match_journal_transfers running to the end and keeping
\* the last row that passes the tests
JournalPartnerLastFound(journal_rows, i, j, matched_indices, accounts) ==
    LET desc1 == upper(journal_rows[i].Description)
        amt1 == _parse_amount(journal_rows[i].Amount)
        found == {n \in j..Len(journal_rows) :
                     /\ n \notin matched_indices
                     /\ _parse_amount(journal_rows[n].Amount).ok
                     /\ JournalMatch(journal_rows[i],
                                     contains(desc1, STR_JOURNAL_TO),
                                     contains(desc1, STR_JOURNAL_FRM), amt1.v,
                                     journal_rows[n], upper(journal_rows[n].Description),
                                     _parse_amount(journal_rows[n].Amount).v)
                     /\ ~AccountsRejected(
                            IF Truthy(accounts) THEN extract_journal_account(desc1)
                            ELSE NoAccount,
                            extract_journal_account(upper(journal_rows[n].Description)),
                            accounts)}
    IN  IF found = {} THEN 0 ELSE CHOOSE n \in found : \A x \in found : x <= n

\* the inner loop of _match_journal_transfers from index j on: the index the
\* loop breaks at, 0 when it runs to the end
RECURSIVE JournalPartner(_, _, _, _, _)
JournalPartner(journal_rows, i, j, matched_indices, accounts) ==
    IF j > Len(journal_rows) THEN 0
    ELSE LET desc1 == upper(journal_rows[i].Description)
             amt1 == _parse_amount(journal_rows[i].Amount)
             is_to == contains(desc1, STR_JOURNAL_TO)
             is_frm == contains(desc1, STR_JOURNAL_FRM)
             acct1 == IF Truthy(accounts) THEN extract_journal_account(desc1)
                      ELSE NoAccount
             desc2 == upper(journal_rows[j].Description)
             amt2 == _parse_amount(journal_rows[j].Amount)
             next == JournalPartner(journal_rows, i, j + 1, matched_indices, accounts)
         IN  IF j \in matched_indices THEN next
             ELSE IF ~amt2.ok THEN next
             ELSE IF ~JournalMatch(journal_rows[i], is_to, is_frm, amt1.v,
                                   journal_rows[j], desc2, amt2.v)
                  THEN next
             ELSE IF AccountsRejected(acct1, extract_journal_account(desc2), accounts)
                  THEN next
             ELSE j

\* the outer loop of _match_journal_transfers from index i on
RECURSIVE JournalScan(_, _, _, _)
JournalScan(journal_rows, i, pairs, accounts) ==
    IF i > Len(journal_rows) THEN pairs
    ELSE LET matched_indices == PairIndices(pairs)
             desc1 == upper(journal_rows[i].Description)
             amt1 == _parse_amount(journal_rows[i].Amount)
             is_to == contains(desc1, STR_JOURNAL_TO)
             is_frm == contains(desc1, STR_JOURNAL_FRM)
             j == IF i \in matched_indices \/ ~amt1.ok \/ ~(is_to \/ is_frm) THEN 0
                  ELSE JournalPartner(journal_rows, i, i + 1, matched_indices, accounts)
         IN  JournalScan(journal_rows, i + 1,
                         IF j = 0 THEN pairs ELSE pairs \cup {<<i, j>>}, accounts)

\* the pairs (i, j) that _match_journal_transfers adds to matched_indices
JournalPairs(journal_rows, accounts) == JournalScan(journal_rows, 1, {}, accounts)

_match_journal_transfers(journal_rows, accounts) ==
    PairIndices(JournalPairs(journal_rows, accounts))

\* no ValidationError
NoError == [raised |-> FALSE, journaled |-> {}, journal |-> {}]

\* a ValidationError whose message lists the given rows of journaled_rows and
\* of journal_rows
RaisedError(journaled, journal) ==
    [raised |-> TRUE, journaled |-> journaled, journal |-> journal]

\* the unmatched Journal rows the first block of _validate_unmatched_transfers
\* collects in problematic_journals
ProblematicJournals(journal_rows, journal_unmatched, accounts) ==
    {idx \in journal_unmatched :
        LET acct == extract_journal_account(journal_rows[idx].Description)
        IN  acct # NoAccount /\ acct \in accounts.numbers}

\* _validate_unmatched_transfers whose second block is skipped altogether
\* when account verification is active
ValidateSkipsWhenVerifying(journaled_rows, journaled_matched, journal_rows, journal_matched, accounts, keep) ==
    LET journaled_unmatched == (1..Len(journaled_rows)) \ journaled_matched
        journal_unmatched == (1..Len(journal_rows)) \ journal_matched
        problematic_journals ==
            ProblematicJournals(journal_rows, journal_unmatched, accounts)
        total_unmatched == Cardinality(journaled_unmatched) + Cardinality(journal_unmatched)
    IN  IF /\ Truthy(accounts) /\ journal_unmatched # {} /\ ~keep
           /\ problematic_journals # {}
        THEN RaisedError({}, problematic_journals)
        ELSE IF total_unmatched > 0 /\ ~keep /\ ~Truthy(accounts)
        THEN RaisedError(journaled_unmatched, journal_unmatched)
        ELSE NoError

_validate_unmatched_transfers(journaled_rows, journaled_matched, journal_rows, journal_matched, accounts, keep) ==
    LET journaled_unmatched == (1..Len(journaled_rows)) \ journaled_matched
        journal_unmatched == (1..Len(journal_rows)) \ journal_matched
        problematic_journals ==
            ProblematicJournals(journal_rows, journal_unmatched, accounts)
        total_unmatched == Cardinality(journaled_unmatched) + Cardinality(journal_unmatched)
    IN  IF /\ Truthy(accounts) /\ journal_unmatched # {} /\ ~keep
           /\ problematic_journals # {}
        THEN RaisedError({}, problematic_journals)
        ELSE IF /\ total_unmatched > 0 /\ ~keep
                /\ \/ journaled_unmatched # {}
                   \/ journal_unmatched # {} /\ ~Truthy(accounts)
        THEN RaisedError(journaled_unmatched,
                         IF ~Truthy(accounts) THEN journal_unmatched ELSE {})
        ELSE NoError

\* _combine_results without the loop that appends the unmatched 'Journal' rows
CombineDropsJournals(other_rows, journaled_rows, journaled_matched, journal_rows, journal_matched, keep) ==
    IF keep
    THEN other_rows
         \o AtIndices(journaled_rows, (1..Len(journaled_rows)) \ journaled_matched)
    ELSE other_rows

_combine_results(other_rows, journaled_rows, journaled_matched, journal_rows, journal_matched, keep) ==
    IF keep
    THEN other_rows
         \o AtIndices(journaled_rows, (1..Len(journaled_rows)) \ journaled_matched)
         \o AtIndices(journal_rows, (1..Len(journal_rows)) \ journal_matched)
    ELSE other_rows

-----------------------------------------------------------------------------
(* common.generate_symbol_from_description *)

MAX_SYMBOL_LENGTH == 8

STR_UNKNOWN == <<"U","N","K","N","O","W","N">>

\* the characters the first re.sub replaces by a space
SpecialChars == {"&", ".", ",", "-", "(", ")", "[", "]", "%"}

\* re.sub(r"[&.,\-\(\)\[\]%]", " ", s)
replace_special(s) == [k \in 1..Len(s) |-> IF s[k] \in SpecialChars THEN " " ELSE s[k]]

\* re.sub(r"\s+", " ", s): every run of whitespace becomes one space
RECURSIVE collapse_whitespace(_)
collapse_whitespace(s) ==
    IF s = <<>> THEN <<>>
    ELSE IF Head(s) \in Whitespace
         THEN <<" ">> \o collapse_whitespace(lstrip(s))
         ELSE <<Head(s)>> \o collapse_whitespace(Tail(s))

\* the longest prefix of s without whitespace
RECURSIVE first_word(_)
first_word(s) ==
    IF s = <<>> \/ Head(s) \in Whitespace THEN <<>>
    ELSE <<Head(s)>> \o first_word(Tail(s))

\* str.split(): the words between runs of whitespace
RECURSIVE split(_)
split(s) ==
    LET t == lstrip(s)
        w == first_word(t)
    IN  IF t = <<>> THEN <<>>
        ELSE <<w>> \o split(SubSeq(t, Len(w) + 1, Len(t)))

\* generate_symbol_from_description without the truncation of the acronym
GenerateWithoutTruncation(description) ==
    LET normalized == strip(upper(description))
        cleaned == collapse_whitespace(replace_special(normalized))
        words == split(cleaned)
        acronym == [k \in 1..Len(words) |-> words[k][1]]
    IN  IF description = <<>> \/ strip(description) = <<>> THEN STR_UNKNOWN
        ELSE IF words = <<>> THEN STR_UNKNOWN
        ELSE IF acronym # <<>> THEN acronym ELSE STR_UNKNOWN

\* generate_symbol_from_description returning the acronym even when it is empty
GenerateWithoutUnknown(description) ==
    LET normalized == strip(upper(description))
        cleaned == collapse_whitespace(replace_special(normalized))
        words == split(cleaned)
        acronym == [k \in 1..Len(words) |-> words[k][1]]
    IN  IF Len(acronym) > MAX_SYMBOL_LENGTH
        THEN SubSeq(acronym, 1, MAX_SYMBOL_LENGTH)
        ELSE acronym

generate_symbol_from_description(description) ==
    LET normalized == strip(upper(description))
        cleaned == collapse_whitespace(replace_special(normalized))
        words == split(cleaned)
        acronym == [k \in 1..Len(words) |-> words[k][1]]
        truncated == IF Len(acronym) > MAX_SYMBOL_LENGTH
                     THEN SubSeq(acronym, 1, MAX_SYMBOL_LENGTH)
                     ELSE acronym
    IN  IF description = <<>> \/ strip(description) = <<>> THEN STR_UNKNOWN
        ELSE IF words = <<>> THEN STR_UNKNOWN
        ELSE IF truncated # <<>> THEN truncated ELSE STR_UNKNOWN

-----------------------------------------------------------------------------
(* postprocess.SymbolTracker *)

ACT_BUY == <<"B","u","y">>
ACT_SELL == <<"S","e","l","l">>
ACT_STOCK_PLAN_ACTIVITY == <<"S","t","o","c","k"," ","P","l","a","n"," ","A","c","t","i","v","i","t","y">>
ACT_REINVEST_SHARES == <<"R","e","i","n","v","e","s","t"," ","S","h","a","r","e","s">>
ACT_QUAL_DIV_REINVEST == <<"Q","u","a","l"," ","D","i","v"," ","R","e","i","n","v","e","s","t">>
ACT_CANCEL_BUY == <<"C","a","n","c","e","l"," ","B","u","y">>

SECURITY_ACTIONS ==
    {ACT_BUY, ACT_SELL, ACT_STOCK_PLAN_ACTIVITY, ACT_REINVEST_SHARES,
     ACT_QUAL_DIV_REINVEST, ACT_CANCEL_BUY, STR_JOURNAL}

STR_NO_DESCRIPTION == <<"(","n","o"," ","d","e","s","c","r","i","p","t","i","o","n",")">>

DigitChar == <<"0", "1", "2", "3", "4", "5", "6", "7", "8", "9">>

\* str(n) for n >= 0
RECURSIVE IntToStr(_)
IntToStr(n) ==
    IF n < 10 THEN <<DigitChar[n + 1]>>
    ELSE Append(IntToStr(n \div 10), DigitChar[(n % 10) + 1])

\* a dict as a function; d.get(k, default) and the read of a defaultdict
Get(d, k, default) == IF k \in DOMAIN d THEN d[k] ELSE default

\* d[k] = v
Put(d, k, v) == (k :> v) @@ d

EmptyDict == <<>>

\* SymbolTracker.__init__, the mapping being kept in the variable mapping
NewTracker ==
    [description_to_symbol |-> EmptyDict,
     symbol_counter |-> EmptyDict,
     assignments |-> <<>>,
     missing_symbols |-> 0,
     symbols_mapped |-> 0,
     symbols_generated |-> 0,
     missing_descriptions |-> EmptyDict,
     symbol_assignment_counts |-> EmptyDict]

\* _generate_or_lookup_symbol counting a reused description as one more
\* collision of its acronym
ReuseAdvancesCounter(t, table, description) ==
    LET description_lower == lower(description)
        symbol == generate_symbol_from_description(description)
        counter == Get(t.symbol_counter, symbol, 0) + 1
        final == IF counter > 1 THEN symbol \o IntToStr(counter - 1) ELSE symbol
    IN  IF description_lower \in DOMAIN t.description_to_symbol
        THEN [tracker |-> [t EXCEPT
                  !.symbol_counter = Put(@, symbol, counter),
                  !.symbols_generated = @ + 1],
              symbol |-> t.description_to_symbol[description_lower],
              source |-> "REUSED"]
        ELSE IF description_lower \in DOMAIN table
        THEN [tracker |-> [t EXCEPT
                  !.symbols_mapped = @ + 1,
                  !.description_to_symbol = Put(@, description_lower, table[description_lower])],
              symbol |-> table[description_lower],
              source |-> "MAPPED"]
        ELSE [tracker |-> [t EXCEPT
                  !.symbol_counter = Put(@, symbol, counter),
                  !.symbols_generated = @ + 1,
                  !.description_to_symbol = Put(@, description_lower, final)],
              symbol |-> final,
              source |-> "GENERATED"]

\* _generate_or_lookup_symbol remembering and looking up the description as
\* written, without lower()
LookupCaseSensitive(t, table, description) ==
    LET symbol == generate_symbol_from_description(description)
        counter == Get(t.symbol_counter, symbol, 0) + 1
        final == IF counter > 1 THEN symbol \o IntToStr(counter - 1) ELSE symbol
    IN  IF description \in DOMAIN t.description_to_symbol
        THEN [tracker |-> [t EXCEPT !.symbols_generated = @ + 1],
              symbol |-> t.description_to_symbol[description],
              source |-> "REUSED"]
        ELSE IF description \in DOMAIN table
        THEN [tracker |-> [t EXCEPT
                  !.symbols_mapped = @ + 1,
                  !.description_to_symbol = Put(@, description, table[description])],
              symbol |-> table[description],
              source |-> "MAPPED"]
        ELSE [tracker |-> [t EXCEPT
                  !.symbol_counter = Put(@, symbol, counter),
                  !.symbols_generated = @ + 1,
                  !.description_to_symbol = Put(@, description, final)],
              symbol |-> final,
              source |-> "GENERATED"]

\* _generate_or_lookup_symbol looking in the mapping before the descriptions
\* already resolved
MappingBeforeMemo(t, table, description) ==
    LET description_lower == lower(description)
        symbol == generate_symbol_from_description(description)
        counter == Get(t.symbol_counter, symbol, 0) + 1
        final == IF counter > 1 THEN symbol \o IntToStr(counter - 1) ELSE symbol
    IN  IF description_lower \in DOMAIN table
        THEN [tracker |-> [t EXCEPT
                  !.symbols_mapped = @ + 1,
                  !.description_to_symbol = Put(@, description_lower, table[description_lower])],
              symbol |-> table[description_lower],
              source |-> "MAPPED"]
        ELSE IF description_lower \in DOMAIN t.description_to_symbol
        THEN [tracker |-> [t EXCEPT !.symbols_generated = @ + 1],
              symbol |-> t.description_to_symbol[description_lower],
              source |-> "REUSED"]
        ELSE [tracker |-> [t EXCEPT
                  !.symbol_counter = Put(@, symbol, counter),
                  !.symbols_generated = @ + 1,
                  !.description_to_symbol = Put(@, description_lower, final)],
              symbol |-> final,
              source |-> "GENERATED"]

\* SymbolTracker._generate_or_lookup_symbol: the tracker after the call, the
\* symbol and the source returned
_generate_or_lookup_symbol(t, table, description) ==
    LET description_lower == lower(description)
        symbol == generate_symbol_from_description(description)
        counter == Get(t.symbol_counter, symbol, 0) + 1
        final == IF counter > 1 THEN symbol \o IntToStr(counter - 1) ELSE symbol
    IN  IF description_lower \in DOMAIN t.description_to_symbol
        THEN [tracker |-> [t EXCEPT !.symbols_generated = @ + 1],
              symbol |-> t.description_to_symbol[description_lower],
              source |-> "REUSED"]
        ELSE IF description_lower \in DOMAIN table
        THEN [tracker |-> [t EXCEPT
                  !.symbols_mapped = @ + 1,
                  !.description_to_symbol = Put(@, description_lower, table[description_lower])],
              symbol |-> table[description_lower],
              source |-> "MAPPED"]
        ELSE [tracker |-> [t EXCEPT
                  !.symbol_counter = Put(@, symbol, counter),
                  !.symbols_generated = @ + 1,
                  !.description_to_symbol = Put(@, description_lower, final)],
              symbol |-> final,
              source |-> "GENERATED"]

\* the part of process_missing_symbol after the test of the action: the lookup,
\* the update of the row and the bookkeeping
AssignSymbol(t, table, row, row_num, description) ==
    LET counted == [t EXCEPT
            !.missing_symbols = @ + 1,
            !.missing_descriptions =
                LET desc_key == IF description # <<>> THEN description
                                ELSE STR_NO_DESCRIPTION
                IN  Put(@, desc_key, Get(@, desc_key, 0) + 1)]
        found == IF description = <<>>
                 THEN [tracker |-> counted,
                       symbol |-> STR_UNKNOWN \o IntToStr(row_num),
                       source |-> "FALLBACK"]
                 ELSE _generate_or_lookup_symbol(counted, table, description)
        count == Get(found.tracker.symbol_assignment_counts, description,
                     [symbol |-> <<>>, count |-> 0]).count
    IN  [tracker |-> [found.tracker EXCEPT
            !.symbol_assignment_counts =
                Put(@, description, [symbol |-> found.symbol, count |-> count + 1]),
            !.assignments =
                Append(@, [row |-> row_num, description |-> description,
                           symbol |-> found.symbol, source |-> found.source])],
         row |-> [row EXCEPT !.Symbol = found.symbol]]

\* process_missing_symbol counting the missing symbol before the test of the
\* action
CountsBeforeActionTest(t, table, row, row_num) ==
    LET action == strip(row.Action)
        description == strip(row.Description)
    IN  IF action \notin SECURITY_ACTIONS
        THEN [tracker |-> [t EXCEPT !.missing_symbols = @ + 1], row |-> row]
        ELSE AssignSymbol(t, table, row, row_num, description)

\* SymbolTracker.process_missing_symbol: the tracker and the row after the call
process_missing_symbol(t, table, row, row_num) ==
    LET action == strip(row.Action)
        description == strip(row.Description)
    IN  IF action \notin SECURITY_ACTIONS THEN [tracker |-> t, row |-> row]
        ELSE AssignSymbol(t, table, row, row_num, description)

-----------------------------------------------------------------------------
(* Python floats: IEEE 754 binary64 with round-to-nearest-even, computed on
   natural numbers of any size kept as sequences of limbs, least significant
   first, without leading zero limbs (zero is the empty sequence) *)

LimbBits == 15

LimbBase == 32768

\* the natural number n < 2^31 as limbs
RECURSIVE BigFromInt(_)
BigFromInt(n) ==
    IF n = 0 THEN <<>> ELSE <<n % LimbBase>> \o BigFromInt(n \div LimbBase)

\* the value of a number of limbs that fits an integer of the model
RECURSIVE BigToInt(_)
BigToInt(a) ==
    IF a = <<>> THEN 0 ELSE Head(a) + LimbBase * BigToInt(Tail(a))

\* a without leading zero limbs
RECURSIVE BigNorm(_)
BigNorm(a) ==
    IF a = <<>> THEN <<>>
    ELSE IF a[Len(a)] = 0 THEN BigNorm(SubSeq(a, 1, Len(a) - 1))
    ELSE a

RECURSIVE BigAddCarry(_, _, _)
BigAddCarry(a, b, carry) ==
    IF a = <<>> /\ b = <<>> THEN (IF carry = 0 THEN <<>> ELSE <<carry>>)
    ELSE LET x == IF a = <<>> THEN 0 ELSE Head(a)
             y == IF b = <<>> THEN 0 ELSE Head(b)
             sum == x + y + carry
         IN  <<sum % LimbBase>>
             \o BigAddCarry(IF a = <<>> THEN <<>> ELSE Tail(a),
                            IF b = <<>> THEN <<>> ELSE Tail(b),
                            sum \div LimbBase)

BigAdd(a, b) == BigAddCarry(a, b, 0)

\* a - b - borrow for a >= b + borrow, limbs not normalised
RECURSIVE BigSubBorrow(_, _, _)
BigSubBorrow(a, b, borrow) ==
    IF a = <<>> THEN <<>>
    ELSE LET y == IF b = <<>> THEN 0 ELSE Head(b)
             d == Head(a) - y - borrow
         IN  <<IF d < 0 THEN d + LimbBase ELSE d>>
             \o BigSubBorrow(Tail(a), IF b = <<>> THEN <<>> ELSE Tail(b),
                             IF d < 0 THEN 1 ELSE 0)

\* a - b for a >= b
BigSub(a, b) == BigNorm(BigSubBorrow(a, b, 0))

\* -1, 0 or 1 as a < b, a = b or a > b, comparing from the top limb down
RECURSIVE BigCmpFrom(_, _, _)
BigCmpFrom(a, b, k) ==
    IF k = 0 THEN 0
    ELSE IF a[k] < b[k] THEN -1
    ELSE IF a[k] > b[k] THEN 1
    ELSE BigCmpFrom(a, b, k - 1)

BigCmp(a, b) ==
    IF Len(a) < Len(b) THEN -1
    ELSE IF Len(a) > Len(b) THEN 1
    ELSE BigCmpFrom(a, b, Len(a))

\* a * k + carry for k < LimbBase
RECURSIVE BigMulSmallCarry(_, _, _)
BigMulSmallCarry(a, k, carry) ==
    IF a = <<>> THEN (IF carry = 0 THEN <<>> ELSE <<carry>>)
    ELSE LET p == Head(a) * k + carry
         IN  <<p % LimbBase>> \o BigMulSmallCarry(Tail(a), k, p \div LimbBase)

BigMulSmall(a, k) == IF k = 0 THEN <<>> ELSE BigMulSmallCarry(a, k, 0)

RECURSIVE BigMul(_, _)
BigMul(a, b) ==
    IF a = <<>> \/ b = <<>> THEN <<>>
    ELSE LET rest == BigMul(a, Tail(b))
         IN  BigAdd(BigMulSmall(a, Head(b)),
                    IF rest = <<>> THEN <<>> ELSE <<0>> \o rest)

\* quotient and remainder of a by k < LimbBase, from the top limb down
RECURSIVE BigDivSmallFrom(_, _, _, _)
BigDivSmallFrom(a, k, i, rem) ==
    IF i = 0 THEN [q |-> <<>>, r |-> rem]
    ELSE LET cur == rem * LimbBase + a[i]
             low == BigDivSmallFrom(a, k, i - 1, cur % k)
         IN  [q |-> Append(low.q, cur \div k), r |-> low.r]

BigDivSmall(a, k) ==
    LET d == BigDivSmallFrom(a, k, Len(a), 0)
    IN  [q |-> BigNorm(d.q), r |-> d.r]

RECURSIVE Pow2(_)
Pow2(n) == IF n = 0 THEN 1 ELSE 2 * Pow2(n - 1)

\* a * 2^n
BigShl(a, n) ==
    IF a = <<>> THEN <<>>
    ELSE [k \in 1..(n \div LimbBits) |-> 0] \o BigMulSmall(a, Pow2(n % LimbBits))

\* a \div 2^n
BigShr(a, n) ==
    IF n \div LimbBits >= Len(a) THEN <<>>
    ELSE BigDivSmall(SubSeq(a, (n \div LimbBits) + 1, Len(a)), Pow2(n % LimbBits)).q

RECURSIVE BitLength(_)
BitLength(n) == IF n = 0 THEN 0 ELSE 1 + BitLength(n \div 2)

\* the number of bits of a
BigBitLen(a) ==
    IF a = <<>> THEN 0 ELSE (Len(a) - 1) * LimbBits + BitLength(a[Len(a)])

BigIsOdd(a) == a # <<>> /\ Head(a) % 2 = 1

\* a / 2^n rounded to the nearest natural number, ties to the even one
BigShrRound(a, n) ==
    IF n = 0 THEN a
    ELSE LET q == BigShr(a, n)
             r == BigSub(a, BigShl(q, n))
             c == BigCmp(r, BigShl(<<1>>, n - 1))
         IN  IF c > 0 \/ (c = 0 /\ BigIsOdd(q)) THEN BigAdd(q, <<1>>) ELSE q

\* the bits of the significand of a binary64
MantissaBits == 53

\* a float: (-1)^neg * man * 2^exp with man of 53 bits, or man zero
FloatZero(neg) == [neg |-> neg, man |-> <<>>, exp |-> 0]

\* the float nearest to (-1)^neg * m * 2^e, ties to even
FloatRound(neg, m, e) ==
    LET len == BigBitLen(m)
    IN  IF m = <<>> THEN FloatZero(neg)
        ELSE IF len <= MantissaBits
        THEN [neg |-> neg, man |-> BigShl(m, MantissaBits - len),
              exp |-> e - (MantissaBits - len)]
        ELSE LET q == BigShrRound(m, len - MantissaBits)
             IN  IF BigBitLen(q) > MantissaBits
                 THEN [neg |-> neg, man |-> BigShr(q, 1), exp |-> e + len - MantissaBits + 1]
                 ELSE [neg |-> neg, man |-> q, exp |-> e + len - MantissaBits]

FloatIsZero(x) == x.man = <<>>

FloatNeg(x) == [x EXCEPT !.neg = ~@]

\* abs(x)
FloatAbs(x) == [x EXCEPT !.neg = FALSE]

\* x * y
FloatMul(x, y) == FloatRound(x.neg # y.neg, BigMul(x.man, y.man), x.exp + y.exp)

\* x + y
FloatAdd(x, y) ==
    LET e == IF x.exp < y.exp THEN x.exp ELSE y.exp
        a == BigShl(x.man, x.exp - e)
        b == BigShl(y.man, y.exp - e)
        c == BigCmp(a, b)
    IN  IF FloatIsZero(x) /\ FloatIsZero(y) THEN FloatZero(x.neg /\ y.neg)
        ELSE IF FloatIsZero(x) THEN y
        ELSE IF FloatIsZero(y) THEN x
        ELSE IF x.neg = y.neg THEN FloatRound(x.neg, BigAdd(a, b), e)
        ELSE IF c = 0 THEN FloatZero(FALSE)
        ELSE IF c > 0 THEN FloatRound(x.neg, BigSub(a, b), e)
        ELSE FloatRound(y.neg, BigSub(b, a), e)

\* x - y
FloatSub(x, y) == FloatAdd(x, FloatNeg(y))

\* x < y
FloatLess(x, y) ==
    LET d == FloatSub(x, y)
    IN  ~FloatIsZero(d) /\ d.neg

\* the digits of a decimal numeral as a natural number
RECURSIVE BigFromDigits(_)
BigFromDigits(s) ==
    IF s = <<>> THEN <<>>
    ELSE BigAdd(BigMulSmall(BigFromDigits(SubSeq(s, 1, Len(s) - 1)), 10),
                BigFromInt(DigitValue[s[Len(s)]]))

\* a divided k times by 10: the quotient, and whether any division left a
\* remainder
RECURSIVE BigDivPow10(_, _)
BigDivPow10(a, k) ==
    IF k = 0 THEN [q |-> a, inexact |-> FALSE]
    ELSE LET d == BigDivSmall(a, 10)
             rest == BigDivPow10(d.q, k - 1)
         IN  [q |-> rest.q, inexact |-> rest.inexact \/ d.r # 0]

\* the float nearest to (-1)^neg * n / 10^k: n * 2^t / 10^k is cut to an integer
\* of more than 54 bits and a sticky bit records what was cut
FloatFromDecimal(neg, n, k) ==
    LET t == 64 + 4 * k
        d == BigDivPow10(BigShl(n, t), k)
        m == BigAdd(BigShl(d.q, 1), IF d.inexact THEN <<1>> ELSE <<>>)
    IN  FloatRound(neg, m, -(t + 1))

\* float(s) for plain decimal notation: surrounding blanks, an optional sign,
\* digits with at most one point and at least one digit; anything else in the
\* alphabet of the model raises ValueError
float64(s) ==
    LET t == strip(s)
        signed == t # <<>> /\ Head(t) \in {"-", "+"}
        body == IF signed THEN Tail(t) ELSE t
        dots == {k \in 1..Len(body) : body[k] = "."}
        well_formed ==
            /\ \A k \in 1..Len(body) : body[k] \in Digits \cup {"."}
            /\ Cardinality(dots) <= 1
            /\ \E k \in 1..Len(body) : body[k] \in Digits
        dot == IF dots = {} THEN Len(body) + 1 ELSE CHOOSE k \in dots : TRUE
        digits == SubSeq(body, 1, dot - 1) \o SubSeq(body, dot + 1, Len(body))
        places == IF dots = {} THEN 0 ELSE Len(body) - dot
    IN  IF ~well_formed THEN NoNumber
        ELSE Number(FloatFromDecimal(signed /\ Head(t) = "-", BigFromDigits(digits), places))

\* the decimal digits of a, "0" for zero
RECURSIVE BigToDigits(_)
BigToDigits(a) ==
    LET d == BigDivSmall(a, 10)
    IN  IF d.q = <<>> THEN <<DigitChar[d.r + 1]>>
        ELSE Append(BigToDigits(d.q), DigitChar[d.r + 1])

\* f"{x:.<places>f}" for x >= 0 and 1 <= places <= 4: x * 10^places rounded to
\* the nearest integer, ties to even, with the point before the last places
\* digits
FormatFixed(x, places) ==
    LET scaled == BigMulSmall(x.man, Pow10(places))
        units == IF x.exp >= 0 THEN BigShl(scaled, x.exp) ELSE BigShrRound(scaled, -x.exp)
        digits == BigToDigits(units)
        padded == [k \in 1..(places + 1 - Len(digits)) |-> "0"] \o digits
    IN  SubSeq(padded, 1, Len(padded) - places) \o <<".">>
        \o SubSeq(padded, Len(padded) - places + 1, Len(padded))

-----------------------------------------------------------------------------
(* postprocess.RoundingFixer *)

\* MIN_ROUNDING_DIFF = 0.01
MIN_ROUNDING_DIFF == FloatFromDecimal(FALSE, BigFromInt(1), 2)

\* MAX_ROUNDING_DIFF = 1.00
MAX_ROUNDING_DIFF == FloatFromDecimal(FALSE, BigFromInt(100), 2)

\* common.parse_currency; NoNumber stands for the ValueError of float()
parse_currency(currency_str) ==
    float64(remove_char(remove_char(currency_str, "$"), ","))

\* s[:n]
Prefix(s, n) == SubSeq(s, 1, IF Len(s) < n THEN Len(s) ELSE n)

-----------------------------------------------------------------------------
(* Inputs of the transfer matcher *)

DATE_0818 == <<"0","8","/","1","8","/","2","0","2","4">>
DATE_0819 == <<"0","8","/","1","9","/","2","0","2","4">>
SYM_META == <<"M","E","T","A">>
SYM_AAPL == <<"A","A","P","L">>
DESC_META == <<"M","E","T","A"," ","P","L","A","T","F","O","R","M","S"," ","I","N","C">>
DESC_AAPL == <<"A","P","P","L","E"," ","I","N","C">>
ACCT_157 == <<"1","5","7">>
ACCT_964 == <<"9","6","4">>

JournaledSharesRow(date, symbol, price, quantity) ==
    Row(date, STR_JOURNALED_SHARES, symbol, DESC_META, price, quantity, <<>>, <<>>)

JournalRow(date, description, amount) ==
    Row(date, STR_JOURNAL, <<>>, description, <<>>, <<>>, <<>>, amount)

\* 'Journaled Shares' rows: a base row and rows differing from it in one field
JournaledSharesPool ==
    {JournaledSharesRow(DATE_0818, SYM_META,
         <<"$","4","7","5",".","0","0">>,
         <<"-","1","6","1">>),
     JournaledSharesRow(DATE_0818, SYM_META,
         <<"$","4","7","5",".","0","0">>,
         <<"1","6","1">>),
     JournaledSharesRow(DATE_0818, SYM_META,
         <<"$","4","7","5",".","0","0">>,
         <<"1","6","1",".","0","0","5">>),
     JournaledSharesRow(DATE_0818, SYM_META,
         <<"$","4","7","5",".","0","0">>,
         <<"n","/","a">>),
     JournaledSharesRow(DATE_0819, SYM_META,
         <<"$","4","7","5",".","0","0">>,
         <<"1","6","1">>),
     JournaledSharesRow(DATE_0818, SYM_AAPL,
         <<"$","4","7","5",".","0","0">>,
         <<"1","6","1">>),
     JournaledSharesRow(DATE_0818, SYM_META,
         <<"$","4","7","5",".","0">>,
         <<"1","6","1">>)}

\* 'Journal' rows: both directions, accounts inside and outside the merge,
\* no account, no direction, no amount, another date, another amount
JournalPool ==
    {JournalRow(DATE_0818,
         <<"J","O","U","R","N","A","L"," ","T","O"," ",".",".",".","9","6","4">>,
         <<"-","$","1",",","0","0","0",".","0","0">>),
     JournalRow(DATE_0818,
         <<"J","O","U","R","N","A","L"," ","F","R","M"," ",".",".",".","1","5","7">>,
         <<"$","1",",","0","0","0",".","0","0">>),
     JournalRow(DATE_0818,
         <<"J","O","U","R","N","A","L"," ","T","O"," ",".",".",".","9","9","9">>,
         <<"-","$","1",",","0","0","0",".","0","0">>),
     JournalRow(DATE_0818,
         <<"J","o","u","r","n","a","l"," ","F","r","m">>,
         <<"$","1",",","0","0","0",".","0","0">>),
     JournalRow(DATE_0819,
         <<"J","O","U","R","N","A","L"," ","F","R","M"," ",".",".",".","1","5","7">>,
         <<"$","1",",","0","0","0",".","0","0">>),
     JournalRow(DATE_0818,
         <<"J","O","U","R","N","A","L"," ","F","R","M"," ",".",".",".","1","5","7">>,
         <<>>),
     JournalRow(DATE_0818,
         <<"W","I","R","E"," ","F","U","N","D","S"," ",".",".",".","1","5","7">>,
         <<"$","1",",","0","0","0",".","0","0">>),
     JournalRow(DATE_0818,
         <<"J","O","U","R","N","A","L"," ","F","R","M"," ",".",".",".","1","5","7">>,
         <<"$","2",",","5","0","0",".","0","0">>)}

\* rows of other actions
OtherPool ==
    {Row(DATE_0818, ACT_BUY, SYM_AAPL, DESC_AAPL,
         <<"$","1","5","0",".","0","0">>, <<"1","0">>, <<"$","1",".","0","0">>,
         <<"-","$","1",",","5","0","1",".","0","0">>),
     Row(DATE_0819, ACT_SELL, SYM_META, DESC_META,
         <<"$","1","5","5",".","0","0">>, <<"5">>, <<"$","1",".","0","0">>,
         <<"$","7","7","4",".","0","0">>)}

TransferRowPool == JournaledSharesPool \cup JournalPool \cup OtherPool

\* the lists of at most n elements of S
SeqsUpTo(S, n) == UNION {[1..k -> S] : k \in 0..n}

\* account_numbers as main passes it: None, or the accounts of the input files
AccountChoices == {AccountsNone, Accounts({ACCT_157}), Accounts({ACCT_157, ACCT_964})}

-----------------------------------------------------------------------------
(* The transfer matcher as a state machine: one call of filter_journaled_shares *)

\* no call of generate_symbol_from_description on its own
GenerateIdle ==
    /\ gs_input = <<>>
    /\ gs_output = <<>>
    /\ gs_pc = "idle"

\* no run of the rounding fixer
RoundingIdle ==
    /\ rf_input = <<>>
    /\ rf_rows = <<>>
    /\ rf_next = 1
    /\ rf_fixes = <<>>
    /\ rf_run = 0
    /\ rf_first = <<>>

\* main has not been started
MergeIdle ==
    /\ md_files = <<>>
    /\ md_keep = FALSE
    /\ md_pc = "idle"
    /\ md_headers = <<>>
    /\ md_rows = <<>>
    /\ md_accounts = AccountsNone
    /\ md_written = <<>>
    /\ md_exit = <<>>

\* no award file is read
AwardsIdle ==
    /\ aw_file = <<>>
    /\ aw_pc = "idle"
    /\ aw_merged = <<>>
    /\ aw_written = <<>>

ResolverIdle ==
    /\ sr_input = <<>>
    /\ sr_rows = <<>>
    /\ sr_next = 1
    /\ mapping = <<>>
    /\ tracker = <<>>

InitTransfer ==
    /\ rows \in SeqsUpTo(TransferRowPool, MaxRows)
    /\ keep_unmatched \in BOOLEAN
    /\ account_numbers \in AccountChoices
    /\ tm_pc = "call"
    /\ result = <<>>
    /\ error = NoError
    /\ journaled_pairs = {}
    /\ journal_pairs = {}
    /\ ResolverIdle
    /\ GenerateIdle
    /\ RoundingIdle
    /\ MergeIdle
    /\ AwardsIdle

\* filter_journaled_shares(rows, headers, keep_unmatched, account_numbers):
\* steps 1 to 5; the bound names are the locals of the function
FilterJournaledShares ==
    /\ tm_pc = "call"
    /\ \E parts \in {_separate_by_action(rows)} :
       \E j_pairs \in {JournaledSharesPairs(parts.journaled_rows)} :
       \E t_pairs \in {JournalPairs(parts.journal_rows, account_numbers)} :
       \E raised \in {_validate_unmatched_transfers(
                          parts.journaled_rows, PairIndices(j_pairs),
                          parts.journal_rows, PairIndices(t_pairs),
                          account_numbers, keep_unmatched)} :
          IF parts.journaled_rows = <<>> /\ parts.journal_rows = <<>>
          THEN /\ tm_pc' = "returned"
               /\ result' = rows
               /\ error' = NoError
               /\ journaled_pairs' = {}
               /\ journal_pairs' = {}
          ELSE /\ journaled_pairs' = j_pairs
               /\ journal_pairs' = t_pairs
               /\ error' = raised
               /\ IF raised.raised
                  THEN /\ tm_pc' = "raised"
                       /\ result' = <<>>
                  ELSE /\ tm_pc' = "returned"
                       /\ result' = _combine_results(
                              parts.other_rows,
                              parts.journaled_rows, PairIndices(j_pairs),
                              parts.journal_rows, PairIndices(t_pairs),
                              keep_unmatched)
    /\ UNCHANGED <<rows, keep_unmatched, account_numbers, sr_vars, gs_vars, rf_vars, md_vars, aw_vars>>

NextTransfer == FilterJournaledShares

SpecTransfer == InitTransfer /\ [][NextTransfer]_vars

-----------------------------------------------------------------------------
(* Inputs of the symbol resolver *)

ACT_WIRE_SENT == <<"W","i","r","e"," ","S","e","n","t">>

ResolverRow(action, symbol, description) ==
    Row(DATE_0818, action, symbol, description, <<>>, <<>>, <<>>, <<>>)

\* rows with and without a symbol, of security and other actions, with
\* descriptions that are equal after trimming and case folding, that collide in
\* their acronym, that are blank, that hold special characters only, that the
\* mapping table knows, and whose acronym ends in a digit
ResolverRowPool ==
    {ResolverRow(ACT_BUY, <<>>,
         <<"A","p","p","l","e"," ","I","n","c">>),
     ResolverRow(ACT_SELL, <<" ">>,
         <<"A","P","P","L","E"," ","I","N","C"," ">>),
     ResolverRow(ACT_BUY, <<>>,
         <<"A","l","p","h","a"," ","I","n","d","u","s","t","r","i","e","s">>),
     ResolverRow(ACT_BUY, <<>>,
         <<>>),
     ResolverRow(STR_JOURNAL, <<>>,
         <<" "," ">>),
     ResolverRow(ACT_BUY, <<>>,
         <<"&"," ","-">>),
     ResolverRow(ACT_REINVEST_SHARES, <<>>,
         <<"V","a","n","g","u","a","r","d"," ","F","T","S","E">>),
     ResolverRow(ACT_WIRE_SENT, <<>>,
         <<"A","p","p","l","e"," ","I","n","c">>),
     ResolverRow(ACT_BUY, <<"A","A","P","L">>,
         <<"A","p","p","l","e"," ","I","n","c">>),
     ResolverRow(ACT_BUY, <<>>,
         <<"U"," ","N"," ","K"," ","N"," ","O"," ","W"," ","N"," ","2">>),
     ResolverRow(ACT_BUY, <<>>,
         <<"A"," ","I"," ","1">>),
     ResolverRow(ACT_SELL, <<>>,
         <<"A","c","m","e"," ","I","n","t","l">>)}

\* the table load_mapping_file returns: keys lower-cased, symbols non-empty
MappingChoices ==
    {EmptyDict,
     (<<"v","a","n","g","u","a","r","d"," ","f","t","s","e">> :> <<"V","W","R","L">>)
     @@ (<<"a","p","p","l","e"," ","i","n","c">> :> <<"A","A","P","L">>)}

-----------------------------------------------------------------------------
(* The symbol resolver as a state machine: step 3 of process_csv, one row of
   the loop per step *)

TransferIdle ==
    /\ rows = <<>>
    /\ keep_unmatched = FALSE
    /\ account_numbers = AccountsNone
    /\ tm_pc = "idle"
    /\ result = <<>>
    /\ error = NoError
    /\ journaled_pairs = {}
    /\ journal_pairs = {}

InitResolver ==
    /\ sr_input \in SeqsUpTo(ResolverRowPool, MaxSrRows)
    /\ sr_rows = sr_input
    /\ sr_next = 1
    /\ mapping \in MappingChoices
    /\ tracker = NewTracker
    /\ TransferIdle
    /\ GenerateIdle
    /\ RoundingIdle
    /\ MergeIdle
    /\ AwardsIdle

\* the body of the loop "for row_num, row in enumerate(rows, start=2)"
ProcessRow ==
    /\ sr_next <= Len(sr_rows)
    /\ IF strip(sr_rows[sr_next].Symbol) = <<>>
       THEN \E out \in {process_missing_symbol(tracker, mapping, sr_rows[sr_next], sr_next + 1)} :
               /\ tracker' = out.tracker
               /\ sr_rows' = [sr_rows EXCEPT ![sr_next] = out.row]
       ELSE UNCHANGED <<tracker, sr_rows>>
    /\ sr_next' = sr_next + 1
    /\ UNCHANGED <<sr_input, mapping, tm_vars, gs_vars, rf_vars, md_vars, aw_vars>>

NextResolver == ProcessRow

SpecResolver == InitResolver /\ [][NextResolver]_vars

\* the resolver loop has gone through all rows
ResolverDone == sr_next > Len(sr_rows)

-----------------------------------------------------------------------------
(* generate_symbol_from_description called on its own: the descriptions are a
   short free text followed by a number of one-letter words, each after one of
   the special characters *)

\* longest free text at the head of a description
MaxPrefixLen == 3

\* most words after the free text
MaxWords == 9

GenAlphabet == {"a", "Z", "7", " ", "\t", "&", "/"}

Separators == <<"&", ".", ",", "-", "(", ")", "[", "]", "%">>

WordLetters == <<"q", "R", "s", "T", "u", "V", "w", "X", "y">>

\* n words of one letter, the k-th after the k-th special character
RECURSIVE SeparatedWords(_)
SeparatedWords(n) ==
    IF n = 0 THEN <<>>
    ELSE SeparatedWords(n - 1)
         \o <<Separators[((n - 1) % Len(Separators)) + 1],
              WordLetters[((n - 1) % Len(WordLetters)) + 1]>>

GenerateInputs ==
    {p \o SeparatedWords(n) : p \in SeqsUpTo(GenAlphabet, MaxPrefixLen), n \in 0..MaxWords}

InitGenerate ==
    /\ gs_input \in GenerateInputs
    /\ gs_output = <<>>
    /\ gs_pc = "call"
    /\ TransferIdle
    /\ sr_input = <<>>
    /\ sr_rows = <<>>
    /\ sr_next = 1
    /\ mapping = EmptyDict
    /\ tracker = NewTracker
    /\ RoundingIdle
    /\ MergeIdle
    /\ AwardsIdle

Generate ==
    /\ gs_pc = "call"
    /\ gs_output' = generate_symbol_from_description(gs_input)
    /\ gs_pc' = "returned"
    /\ UNCHANGED <<gs_input, tm_vars, sr_vars, rf_vars, md_vars, aw_vars>>

NextGenerate == Generate

SpecGenerate == InitGenerate /\ [][NextGenerate]_vars

-----------------------------------------------------------------------------
(* The rounding fixer as a state machine: step 4 of process_csv, one row of
   process_rows per step, and a second run of a new RoundingFixer over the
   rows the first run left *)

\* longest row list handed to process_rows
MaxRfRows == 2

ACT_REINVEST_DIVIDEND == <<"R","e","i","n","v","e","s","t"," ","D","i","v","i","d","e","n","d">>

SYM_MSFT == <<"M","S","F","T">>

DESC_MSFT == <<"M","I","C","R","O","S","O","F","T"," ","C","O","R","P">>

RoundingRow(price, quantity, fees, amount) ==
    Row(DATE_0818, ACT_REINVEST_DIVIDEND, SYM_MSFT, DESC_MSFT, price, quantity, fees, amount)

\* rows of the tests and rows around the two bounds, with missing and
\* unparseable fields, with fees, commas and blanks
RoundingRowPool ==
    {\* the row of test_fix_dividend_reinvestment_rounding: off by 0.01186
     RoundingRow(<<"$","5","4",".","3","4">>, <<"0",".","5","7","1">>,
         <<>>, <<"-","$","3","1",".","0","4">>),
     \* a sale whose amount is right with the fees
     RoundingRow(<<"$","4",".","8","9">>, <<"1","6">>,
         <<"$","0",".","6","6">>, <<"$","7","7",".","5","8">>),
     \* off by exactly 0.01
     RoundingRow(<<"$","1",".","0","0">>, <<"1">>,
         <<>>, <<"$","1",".","0","1">>),
     \* off by exactly 0.01, higher up
     RoundingRow(<<"$","1","0",".","0","2">>, <<"1">>,
         <<>>, <<"$","1","0",".","0","3">>),
     \* off by exactly 1.00
     RoundingRow(<<"$","1",".","0","0">>, <<"1">>,
         <<>>, <<"$","2",".","0","0">>),
     \* off by 0.99
     RoundingRow(<<"$","1",".","0","0">>, <<"1">>,
         <<>>, <<"$","1",".","9","9">>),
     \* off by more than 1.00
     RoundingRow(<<"$","9","9",".","1","7">>, <<"4">>,
         <<>>, <<"-","$","3","9","8",".","7","5">>),
     \* no price
     RoundingRow(<<>>, <<"1">>,
         <<>>, <<"$","1",".","0","5">>),
     \* a quantity that is no number
     RoundingRow(<<"$","1",".","0","0">>, <<"n","/","a">>,
         <<>>, <<"$","1",".","0","5">>),
     \* fees that are no number
     RoundingRow(<<"$","1",".","0","0">>, <<"1">>,
         <<"a","b","c">>, <<"$","1",".","0","5">>),
     \* a blank amount
     RoundingRow(<<"$","1",".","0","0">>, <<"1">>,
         <<>>, <<" ">>),
     \* fees above the gross amount: the calculated amount is negative
     RoundingRow(<<"$","0",".","1","0">>, <<"1">>,
         <<"$","0",".","5","0">>, <<"$","0",".","1","0">>),
     \* a purchase with commas and blanks, off by 0.04
     RoundingRow(<<" ","$","1","5","0",".","0","0"," ">>, <<"1",",","0">>,
         <<"$","1",".","0","0">>, <<"-","$","1",",","5","0","1",".","0","4">>),
     \* the calculated amount 1.005 lies between two cents
     RoundingRow(<<"$","2",".","0","1">>, <<"0",".","5">>,
         <<>>, <<"$","1",".","0","5">>)}

InitRounding ==
    /\ rf_input \in SeqsUpTo(RoundingRowPool, MaxRfRows)
    /\ rf_rows = rf_input
    /\ rf_next = 1
    /\ rf_fixes = <<>>
    /\ rf_run = 1
    /\ rf_first = <<>>
    /\ TransferIdle
    /\ sr_input = <<>>
    /\ sr_rows = <<>>
    /\ sr_next = 1
    /\ mapping = EmptyDict
    /\ tracker = NewTracker
    /\ GenerateIdle
    /\ MergeIdle
    /\ AwardsIdle

\* the body of the loop of process_rows, "for row_num, row in
\* enumerate(rows, start=2)": one call of _check_and_fix_row, each local of
\* which is bound once, in the order of the code; a ValueError of one of the
\* parses is caught and leaves the row and the fixes alone
CheckAndFixRow ==
    /\ rf_run \in {1, 2}
    /\ rf_next <= Len(rf_rows)
    /\ \E row \in {rf_rows[rf_next]}, row_num \in {rf_next + 1} :
       \E price_str \in {strip(row.Price)}, quantity_str \in {strip(row.Quantity)} :
       \E amount_str \in {strip(row.Amount)}, fees_str \in {strip(row.Fees)} :
         IF price_str = <<>> \/ quantity_str = <<>> \/ amount_str = <<>>
         THEN UNCHANGED <<rf_rows, rf_fixes>>
         ELSE
           \E price \in {parse_currency(price_str)} :
           \E quantity \in {float64(remove_char(quantity_str, ","))} :
           \E amount \in {parse_currency(amount_str)} :
           \E fees \in {IF fees_str # <<>> THEN parse_currency(fees_str)
                        ELSE Number(FloatZero(FALSE))} :
             IF ~price.ok \/ ~quantity.ok \/ ~amount.ok \/ ~fees.ok
             THEN UNCHANGED <<rf_rows, rf_fixes>>
             ELSE
               \E gross_amount \in {FloatMul(quantity.v, price.v)} :
               \E negative \in {FloatLess(amount.v, FloatZero(FALSE))} :
               \E calculated_amount \in
                      {IF ~negative THEN FloatSub(gross_amount, fees.v)
                       ELSE FloatNeg(FloatAdd(gross_amount, fees.v))} :
               \E diff \in {FloatAbs(FloatSub(calculated_amount, amount.v))} :
                 IF FloatLess(MIN_ROUNDING_DIFF, diff) /\ FloatLess(diff, MAX_ROUNDING_DIFF)
                 THEN \E sign \in {IF negative THEN <<"-">> ELSE <<>>} :
                      \E fixed_amount \in
                             {sign \o <<"$">> \o FormatFixed(FloatAbs(calculated_amount), 2)} :
                        /\ rf_rows' = [rf_rows EXCEPT ![rf_next].Amount = fixed_amount]
                        /\ rf_fixes' = Append(rf_fixes,
                               [row |-> row_num,
                                symbol |-> row.Symbol,
                                description |-> Prefix(row.Description, 30),
                                old_amount |-> row.Amount,
                                new_amount |-> fixed_amount,
                                diff |-> <<"$">> \o FormatFixed(diff, 3)])
                 ELSE UNCHANGED <<rf_rows, rf_fixes>>
    /\ rf_next' = rf_next + 1
    /\ UNCHANGED <<rf_input, rf_run, rf_first, tm_vars, sr_vars, gs_vars, md_vars, aw_vars>>

\* process_rows has returned; a new RoundingFixer starts on the rows it left
RunAgain ==
    /\ rf_run = 1
    /\ rf_next > Len(rf_rows)
    /\ rf_first' = rf_rows
    /\ rf_fixes' = <<>>
    /\ rf_next' = 1
    /\ rf_run' = 2
    /\ UNCHANGED <<rf_input, rf_rows, tm_vars, sr_vars, gs_vars, md_vars, aw_vars>>

NextRounding == CheckAndFixRow \/ RunAgain

SpecRounding == InitRounding /\ [][NextRounding]_vars

-----------------------------------------------------------------------------
(* The call of filter_journaled_shares as the properties read it *)

InJournaledRows == _separate_by_action(rows).journaled_rows

InJournalRows == _separate_by_action(rows).journal_rows

IsOtherRow(r) == r.Action # STR_JOURNALED_SHARES /\ r.Action # STR_JOURNAL

JournaledUnmatched == (1..Len(InJournaledRows)) \ PairIndices(journaled_pairs)

JournalUnmatched == (1..Len(InJournalRows)) \ PairIndices(journal_pairs)

\* the rows of the matched pairs
MatchedRows ==
    AtIndices(InJournaledRows, PairIndices(journaled_pairs))
    \o AtIndices(InJournalRows, PairIndices(journal_pairs))

\* how often x occurs in the list s
Count(s, x) == Cardinality({k \in 1..Len(s) : s[k] = x})

Range(s) == {s[k] : k \in 1..Len(s)}

JournalAccount(k) == extract_journal_account(InJournalRows[k].Description)

\* unmatched 'Journal' rows that name an account outside the merge set
OutsideJournals ==
    {k \in JournalUnmatched :
        JournalAccount(k) # NoAccount /\ JournalAccount(k) \notin account_numbers.numbers}

\* unmatched 'Journal' rows that are errors under the policy in force
OffendingJournals ==
    IF Truthy(account_numbers)
    THEN {k \in JournalUnmatched :
            JournalAccount(k) # NoAccount /\ JournalAccount(k) \in account_numbers.numbers}
    ELSE JournalUnmatched

-----------------------------------------------------------------------------
(* Properties of the transfer matcher *)

\* C1: when filter_journaled_shares returns with keep_unmatched false, every
\* input row missing from the result belongs to a matched pair: per row value,
\* the occurrences lost are at most the occurrences in matched pairs.
C1_NoSilentDataLoss ==
    (tm_pc = "returned" /\ ~keep_unmatched) =>
        \A k \in 1..Len(rows) :
            Count(rows, rows[k]) - Count(result, rows[k]) <= Count(MatchedRows, rows[k])

\* C2: with keep_unmatched false the call raises and returns no rows whenever
\* a 'Journaled Shares' row is left unmatched, and whenever account_numbers is
\* None and a 'Journal' row is left unmatched.
C2_FailClosed ==
    (/\ tm_pc # "call"
     /\ ~keep_unmatched
     /\ \/ JournaledUnmatched # {}
        \/ ~account_numbers.given /\ JournalUnmatched # {})
    => (tm_pc = "raised" /\ result = <<>>)

C2_Witness ==
    /\ tm_pc = "raised"
    /\ ~account_numbers.given
    /\ JournaledUnmatched = {}
    /\ JournalUnmatched # {}

\* C3: with a non-empty account set, two 'Journal' rows are matched only if an
\* account number is extracted from both descriptions and both numbers are in
\* the set.
C3_AccountCrossValidation ==
    (tm_pc # "call" /\ Truthy(account_numbers)) =>
        \A p \in journal_pairs :
            /\ JournalAccount(p[1]) # NoAccount
            /\ JournalAccount(p[2]) # NoAccount
            /\ JournalAccount(p[1]) \in account_numbers.numbers
            /\ JournalAccount(p[2]) \in account_numbers.numbers

\* C4: with a non-empty account set, an unmatched 'Journal' row naming an
\* account outside the set is never listed as an error, does not make the call
\* raise when it is the only kind of unmatched row, and is in the returned rows
\* whatever keep_unmatched is.
C4_OutsideJournalRetained ==
    Truthy(account_numbers) =>
        /\ tm_pc = "raised" => error.journal \cap OutsideJournals = {}
        /\ (/\ tm_pc # "call"
            /\ JournaledUnmatched = {}
            /\ JournalUnmatched \subseteq OutsideJournals) => tm_pc = "returned"
        /\ tm_pc = "returned" =>
               \A k \in OutsideJournals : InJournalRows[k] \in Range(result)

C7_KeepUnmatched ==
    (tm_pc # "call" /\ keep_unmatched) =>
        /\ tm_pc = "returned"
        /\ Len(result) = Len(rows) - Len(MatchedRows)
        /\ Range(result) \subseteq Range(rows)
        /\ \A k \in 1..Len(rows) :
              Count(result, rows[k]) = Count(rows, rows[k]) - Count(MatchedRows, rows[k])

C7_Witness ==
    /\ tm_pc = "returned"
    /\ keep_unmatched
    /\ journaled_pairs \cup journal_pairs # {}
    /\ JournaledUnmatched \cup JournalUnmatched # {}

\* C8: on every return, the rows whose Action is neither 'Journaled Shares'
\* nor 'Journal' are in the result the same rows in the same order as in the
\* input.
C8_OtherRowsUnchanged ==
    tm_pc = "returned" =>
        SelectSeq(result, IsOtherRow) = SelectSeq(rows, IsOtherRow)

C8_Witness ==
    /\ tm_pc = "returned"
    /\ Len(rows) > Len(SelectSeq(rows, IsOtherRow))
    /\ Cardinality(Range(SelectSeq(rows, IsOtherRow))) = 2

\* C9: when the call raises, the error lists every unmatched 'Journaled
\* Shares' row and every unmatched 'Journal' row that is an error under the
\* policy in force.
C9_ErrorListsEveryOffender ==
    tm_pc = "raised" =>
        /\ JournaledUnmatched \subseteq error.journaled
        /\ OffendingJournals \subseteq error.journal

-----------------------------------------------------------------------------
(* Properties of the symbol resolver *)

\* C10: after the resolver pass of process_csv, every row that came in with an
\* empty or blank Symbol and an Action of the security-action set has a Symbol
\* that is not empty.
C10_MissingSymbolFilled ==
    ResolverDone =>
        \A k \in 1..Len(sr_input) :
            (strip(sr_input[k].Symbol) = <<>> /\ sr_input[k].Action \in SECURITY_ACTIONS)
            => sr_rows[k].Symbol # <<>>

C10_Witness ==
    /\ ResolverDone
    /\ \E k \in 1..Len(sr_input) :
          /\ sr_input[k].Symbol # <<>>
          /\ strip(sr_input[k].Symbol) = <<>>
          /\ sr_input[k].Action \in SECURITY_ACTIONS
    /\ \E k \in 1..Len(tracker.assignments) : tracker.assignments[k].source = "FALLBACK"
    /\ \E k \in 1..Len(tracker.assignments) : tracker.assignments[k].source = "GENERATED"

\* the row at position k came to the resolver with a blank Symbol and a
\* security action
Eligible(k) ==
    /\ strip(sr_input[k].Symbol) = <<>>
    /\ strip(sr_input[k].Action) \in SECURITY_ACTIONS

\* the description of the row at position k, trimmed and case-folded
DescriptionKey(k) == lower(strip(sr_input[k].Description))

\* C11 (as stated): within one run, any two eligible rows whose descriptions
\* are equal after trimming and case-folding receive the identical symbol.
C11_SameDescriptionSameSymbol ==
    ResolverDone =>
        \A j, k \in 1..Len(sr_input) :
            (Eligible(j) /\ Eligible(k) /\ DescriptionKey(j) = DescriptionKey(k))
            => sr_rows[j].Symbol = sr_rows[k].Symbol

\* C11 (amended): within one run, any two eligible rows whose descriptions
\* are not empty after trimming and are equal after trimming and case-folding
\* receive the identical symbol.
C11_SameNonEmptyDescriptionSameSymbol ==
    ResolverDone =>
        \A j, k \in 1..Len(sr_input) :
            (/\ Eligible(j) /\ Eligible(k)
             /\ DescriptionKey(j) # <<>>
             /\ DescriptionKey(j) = DescriptionKey(k))
            => sr_rows[j].Symbol = sr_rows[k].Symbol

C11_Witness ==
    /\ ResolverDone
    /\ \E j, k \in 1..Len(sr_input) :
          /\ j < k
          /\ Eligible(j) /\ Eligible(k)
          /\ sr_input[j].Description # sr_input[k].Description
          /\ DescriptionKey(j) # <<>>
          /\ DescriptionKey(j) = DescriptionKey(k)
          /\ sr_rows[j].Symbol = sr_rows[k].Symbol
          /\ \E n \in 1..Len(tracker.assignments) :
                /\ tracker.assignments[n].row = k + 1
                /\ tracker.assignments[n].source = "REUSED"

\* the provenance log
Log == tracker.assignments

\* C12: generated symbols are unique within a run: no two entries of the
\* provenance log with source GENERATED and distinct normalized descriptions
\* hold the same symbol.
C12_GeneratedSymbolsUnique ==
    \A m, n \in 1..Len(Log) :
        (/\ Log[m].source = "GENERATED" /\ Log[n].source = "GENERATED"
         /\ lower(Log[m].description) # lower(Log[n].description))
        => Log[m].symbol # Log[n].symbol

\* C13: the fallback symbol of an eligible row without description is not
\* empty and differs from the symbol assigned to every other row, whatever
\* the resolution path of that row.
C13_FallbackUnique ==
    \A m \in 1..Len(Log) :
        Log[m].source = "FALLBACK" =>
            /\ Log[m].symbol # <<>>
            /\ \A n \in 1..Len(Log) : n # m => Log[n].symbol # Log[m].symbol

\* the number of descriptions resolved by generation before entry n of the
\* log whose acronym is x
GeneratedBefore(n, x) ==
    Cardinality({m \in 1..(n - 1) :
        /\ Log[m].source = "GENERATED"
        /\ generate_symbol_from_description(Log[m].description) = x})

\* C14: among the distinct descriptions that generate the acronym X, the first
\* resolved gets X, the k-th gets X followed by k-1; rows that repeat a resolved
\* description (REUSED) do not advance the count.
C14_CollisionFirstSeenOrder ==
    \A n \in 1..Len(Log) :
        Log[n].source = "GENERATED" =>
            LET x == generate_symbol_from_description(Log[n].description)
                k == GeneratedBefore(n, x)
            IN  Log[n].symbol = IF k = 0 THEN x ELSE x \o IntToStr(k)

C14_Witness ==
    \E m, n \in 1..Len(Log) :
        /\ m < n
        /\ Log[m].source = "REUSED"
        /\ Log[n].source = "GENERATED"
        /\ generate_symbol_from_description(Log[m].description)
               = generate_symbol_from_description(Log[n].description)
        /\ Log[n].symbol = generate_symbol_from_description(Log[n].description) \o <<"1">>

\* the resolver loop is at a row with a blank Symbol whose Action is outside
\* the security-action set
AtIneligibleRow ==
    /\ sr_next <= Len(sr_rows)
    /\ strip(sr_rows[sr_next].Symbol) = <<>>
    /\ strip(sr_rows[sr_next].Action) \notin SECURITY_ACTIONS

-----------------------------------------------------------------------------
(* Properties of generate_symbol_from_description *)

\* a character that is neither whitespace nor one of & . , - ( ) [ ] %
IsWordChar(c) == c \notin Whitespace /\ c \notin SpecialChars

\* the upper-cased characters of d, from position i on, that begin a word: a
\* word character at the start of d or after a character that is none
RECURSIVE WordInitials(_, _)
WordInitials(d, i) ==
    IF i > Len(d) THEN <<>>
    ELSE (IF IsWordChar(d[i]) /\ (i = 1 \/ ~IsWordChar(d[i - 1]))
          THEN upper(<<d[i]>>) ELSE <<>>)
         \o WordInitials(d, i + 1)

\* the symbol the claim describes for the description d
ExpectedSymbol(d) ==
    LET initials == WordInitials(d, 1)
    IN  IF initials = <<>> THEN STR_UNKNOWN
        ELSE SubSeq(initials, 1, IF Len(initials) < 8 THEN Len(initials) ELSE 8)

-----------------------------------------------------------------------------
(* Properties of the rounding fixer.  The claims speak of the decimal numbers
   the fields denote: they are computed exactly here, in units of 10^-5, the
   prices, fees and amounts of the rows having two decimal places and the
   quantities three. *)

\* the decimal numeral s, without "$" and ",", as a count of units of
\* 10^-places
ExactDecimal(s, places) ==
    LET t == strip(remove_char(remove_char(s, "$"), ","))
        signed == t # <<>> /\ Head(t) \in {"-", "+"}
        body == IF signed THEN Tail(t) ELSE t
        dots == {k \in 1..Len(body) : body[k] = "."}
        well_formed ==
            /\ \A k \in 1..Len(body) : body[k] \in Digits \cup {"."}
            /\ Cardinality(dots) <= 1
            /\ \E k \in 1..Len(body) : body[k] \in Digits
        dot == IF dots = {} THEN Len(body) + 1 ELSE CHOOSE k \in dots : TRUE
        fraction == SubSeq(body, dot + 1, Len(body))
        magnitude ==
            DigitsToInt(SubSeq(body, 1, dot - 1)) * Pow10(places)
            + DigitsToInt(fraction) * Pow10(places - Len(fraction))
    IN  IF ~well_formed \/ Len(fraction) > places THEN NoNumber
        ELSE Number(IF signed /\ Head(t) = "-" THEN -magnitude ELSE magnitude)

\* Price, Quantity and Amount of the row are not empty and every number of
\* the row can be parsed
AllParseable(r) ==
    /\ strip(r.Price) # <<>> /\ ExactDecimal(r.Price, 2).ok
    /\ strip(r.Quantity) # <<>> /\ ExactDecimal(r.Quantity, 3).ok
    /\ strip(r.Amount) # <<>> /\ ExactDecimal(r.Amount, 2).ok
    /\ strip(r.Fees) # <<>> => ExactDecimal(r.Fees, 2).ok

\* the recorded amount of the row
ExactAmount(r) == ExactDecimal(r.Amount, 2).v * 1000

\* the expected amount of the row: quantity * price - fees when the recorded
\* amount is >= 0, -(quantity * price + fees) otherwise
ExactExpected(r) ==
    LET gross == ExactDecimal(r.Quantity, 3).v * ExactDecimal(r.Price, 2).v
        fees == IF strip(r.Fees) = <<>> THEN 0 ELSE ExactDecimal(r.Fees, 2).v * 1000
    IN  IF ExactAmount(r) >= 0 THEN gross - fees ELSE -(gross + fees)

\* 0.01 < |expected - recorded| < 1.00
ExactInRange(r) ==
    LET diff == Abs(ExactExpected(r) - ExactAmount(r))
    IN  1000 < diff /\ diff < 100000

\* the fixes recorded for the row at position k
FixesOf(k) == {n \in 1..Len(rf_fixes) : rf_fixes[n].row = k + 1}

\* C17: the rounding fixer rewrites the Amount of a row, and records a fix, if
\* and only if Price, Quantity and Amount are not empty, the numbers of the row
\* are parseable and 0.01 < |expected - recorded| < 1.00; any other row keeps
\* its Amount and has no fix.
C17_RewriteIffInRange ==
    rf_run = 1 =>
        \A k \in 1..(rf_next - 1) :
            LET fix == AllParseable(rf_input[k]) /\ ExactInRange(rf_input[k])
            IN  /\ (rf_rows[k].Amount # rf_input[k].Amount) <=> fix
                /\ (FixesOf(k) # {}) <=> fix

\* "$" and digits with two decimal places, after "-" for a negative amount
IsDollarAmount(s) ==
    LET body == IF s # <<>> /\ Head(s) = "-" THEN Tail(s) ELSE s
    IN  /\ Len(body) >= 5
        /\ body[1] = "$"
        /\ body[Len(body) - 2] = "."
        /\ \A k \in 2..Len(body) : k # Len(body) - 2 => body[k] \in Digits

\* C18: a rewritten Amount is the expected value rounded to two decimals,
\* written with "$" and without commas, with the sign of the recorded amount;
\* parsed back, it equals the expected value to the cent.
C18_RewrittenIsExpected ==
    rf_run = 1 =>
        \A n \in 1..Len(rf_fixes) :
            LET r == rf_input[rf_fixes[n].row - 1]
                new == rf_fixes[n].new_amount
            IN  /\ rf_rows[rf_fixes[n].row - 1].Amount = new
                /\ IsDollarAmount(new)
                /\ (Head(new) = "-") <=> (ExactAmount(r) < 0)
                /\ Abs(ExactDecimal(new, 2).v * 1000 - ExactExpected(r)) <= 500

\* the second run has gone through all rows
SecondRunDone == rf_run = 2 /\ rf_next > Len(rf_rows)

\* C19: a run of process_rows over the output of a previous run changes no
\* Amount and records no fix.
C19_Idempotent ==
    SecondRunDone => (rf_rows = rf_first /\ rf_fixes = <<>>)

-----------------------------------------------------------------------------
(* Properties of the transfer matcher under permutations of its input *)

\* the list s in the order given by the permutation p of its indices
Permute(s, p) == [k \in 1..Len(s) |-> s[p[k]]]

\* how many of the rows equal to r filter_journaled_shares marks as matched
\* in all_rows
MatchedCount(all_rows, accounts, r) ==
    LET parts == _separate_by_action(all_rows)
        journaled_matched == _match_journaled_shares(parts.journaled_rows)
        journal_matched == _match_journal_transfers(parts.journal_rows, accounts)
    IN  Cardinality({k \in journaled_matched : parts.journaled_rows[k] = r})
        + Cardinality({k \in journal_matched : parts.journal_rows[k] = r})

\* filter_journaled_shares raises ValidationError on all_rows
Raises(all_rows, accounts, keep) ==
    LET parts == _separate_by_action(all_rows)
    IN  _validate_unmatched_transfers(
            parts.journaled_rows, _match_journaled_shares(parts.journaled_rows),
            parts.journal_rows, _match_journal_transfers(parts.journal_rows, accounts),
            accounts, keep).raised

\* the call on the rows in the order p marks the same rows as matched as the
\* call that was made, and raises when that call raised
SameOutcome(p) ==
    LET permuted == Permute(rows, p)
    IN  /\ \A r \in Range(rows) :
               MatchedCount(permuted, account_numbers, r) = Count(MatchedRows, r)
        /\ Raises(permuted, account_numbers, keep_unmatched) = error.raised

\* the two rows pass every test of the matching loop of their action
CanPair(row1, row2, accounts) ==
    \/ /\ row1.Action = STR_JOURNALED_SHARES /\ row2.Action = STR_JOURNALED_SHARES
       /\ parse_quantity(row1.Quantity).ok /\ parse_quantity(row2.Quantity).ok
       /\ JournaledSharesMatch(row1, parse_quantity(row1.Quantity).v,
                               row2, parse_quantity(row2.Quantity).v)
    \/ /\ row1.Action = STR_JOURNAL /\ row2.Action = STR_JOURNAL
       /\ _parse_amount(row1.Amount).ok /\ _parse_amount(row2.Amount).ok
       /\ JournalMatch(row1,
                       contains(upper(row1.Description), STR_JOURNAL_TO),
                       contains(upper(row1.Description), STR_JOURNAL_FRM),
                       _parse_amount(row1.Amount).v,
                       row2, upper(row2.Description), _parse_amount(row2.Amount).v)
       /\ ~AccountsRejected(extract_journal_account(upper(row1.Description)),
                            extract_journal_account(upper(row2.Description)),
                            accounts)

\* no row of the input could be paired with more than one other row
AtMostOnePartner ==
    \A i \in 1..Len(rows) :
        Cardinality({j \in 1..Len(rows) :
            j # i /\ CanPair(rows[i], rows[j], account_numbers)}) <= 1

\* C20 as stated: for every input row list and every permutation of it,
\* filter_journaled_shares marks the same rows as matched and the same rows as
\* unmatched, and gives the same success-or-error outcome.
C20_OrderIndependent ==
    tm_pc # "call" => \A p \in Permutations(1..Len(rows)) : SameOutcome(p)

\* C20 amended: the same, for every input row list in which no row could be
\* paired with more than one other row.
C20_OrderIndependentUniquePartners ==
    (tm_pc # "call" /\ AtMostOnePartner) =>
        \A p \in Permutations(1..Len(rows)) : SameOutcome(p)

\* a call on three 'Journaled Shares' rows, none with two possible partners,
\* that matched the first with the last and left the one between them
C20_Witness ==
    /\ tm_pc # "call"
    /\ AtMostOnePartner
    /\ Len(rows) = 3
    /\ journaled_pairs = {<<1, 3>>}
    /\ JournaledUnmatched = {2}

-----------------------------------------------------------------------------
(* The merge driver: main of merge_transactions.  A CSV file is its name, its
   header row and its data rows, each data row a list of fields in the column
   order of the file; a file without a header row has headers = <<>>. *)

REQUIRED_HEADERS ==
    {"Date", "Action", "Symbol", "Description", "Price", "Quantity",
     "Fees & Comm", "Amount"}

MIN_COLUMNS == 8

MAX_COLUMNS == 9

\* list.index(x) for an x that is in the list
Index(s, x) == CHOOSE k \in 1..Len(s) : s[k] = x /\ \A n \in 1..(k - 1) : s[n] # x

\* set(list)
SetOf(s) == {s[k] : k \in 1..Len(s)}

\* str.find(pat): the first position pat starts at, 0 when there is none
Find(s, pat) ==
    IF contains(s, pat)
    THEN CHOOSE k \in 1..(Len(s) - Len(pat) + 1) :
             /\ SubSeq(s, k, k + Len(pat) - 1) = pat
             /\ \A n \in 1..(k - 1) : SubSeq(s, n, n + Len(pat) - 1) # pat
    ELSE 0

\* validate_schwab_csv: TRUE when it raises ValidationError
HeadersInvalid(file) ==
    \/ file.headers = <<>>
    \/ Len(file.headers) < MIN_COLUMNS
    \/ Len(file.headers) > MAX_COLUMNS
    \/ REQUIRED_HEADERS \ SetOf(file.headers) # {}

\* the rows read_schwab_csv keeps of the file, in the column order of
\* reference_headers
read_schwab_csv(file, reference_headers) ==
    LET padded(row) ==
            [k \in 1..(IF Len(row) < Len(file.headers) THEN Len(file.headers) ELSE Len(row)) |->
                IF k <= Len(row) THEN row[k] ELSE <<>>]
        kept == SelectSeq(file.rows, LAMBDA row :
                    /\ \E k \in 1..Len(row) : row[k] # <<>>
                    /\ Len(padded(row)) = Len(file.headers)
                    /\ ~(Len(padded(row)) = MAX_COLUMNS /\ padded(row)[MAX_COLUMNS] # <<>>))
    IN  [n \in 1..Len(kept) |->
            [k \in 1..Len(reference_headers) |->
                padded(kept[n])[Index(file.headers, reference_headers[k])]]]

\* the rows of all files, one file after the other
RECURSIVE ReadAll(_, _)
ReadAll(files, reference_headers) ==
    IF files = <<>> THEN <<>>
    ELSE read_schwab_csv(Head(files), reference_headers)
         \o ReadAll(Tail(files), reference_headers)

\* remove_duplicates: the loop over rows with seen and unique_rows
RECURSIVE remove_duplicates_from(_, _, _)
remove_duplicates_from(all_rows, seen, unique_rows) ==
    IF all_rows = <<>> THEN unique_rows
    ELSE IF Head(all_rows) \notin seen
         THEN remove_duplicates_from(Tail(all_rows), seen \cup {Head(all_rows)},
                                     Append(unique_rows, Head(all_rows)))
         ELSE remove_duplicates_from(Tail(all_rows), seen, unique_rows)

\* remove_duplicates keeping the last occurrence of a row
RemoveDuplicatesKeepingLast(all_rows) ==
    Reverse(remove_duplicates_from(Reverse(all_rows), {}, <<>>))

remove_duplicates(all_rows) == remove_duplicates_from(all_rows, {}, <<>>)

\* extract_account_number: the group of the leftmost match of XXX(\d{3,4}),
\* NoAccount when there is no match
extract_account_number(filename) ==
    LET starts == {k \in 1..(Len(filename) - 5) :
                      /\ SubSeq(filename, k, k + 2) = <<"X", "X", "X">>
                      /\ \A n \in (k + 3)..(k + 5) : filename[n] \in Digits}
    IN  IF starts = {} THEN NoAccount
        ELSE LET k == CHOOSE x \in starts : \A y \in starts : x <= y
                 last == IF k + 6 <= Len(filename) /\ filename[k + 6] \in Digits
                         THEN k + 6 ELSE k + 5
             IN  SubSeq(filename, k + 3, last)

\* the row of reference order as the record filter_journaled_shares reads
\* through headers.index
RowOf(headers, row) ==
    Row(row[Index(headers, "Date")], row[Index(headers, "Action")],
        row[Index(headers, "Symbol")], row[Index(headers, "Description")],
        row[Index(headers, "Price")], row[Index(headers, "Quantity")],
        row[Index(headers, "Fees & Comm")], row[Index(headers, "Amount")])

DaysInMonth(year, month) ==
    IF month = 2
    THEN IF year % 4 = 0 /\ (year % 100 # 0 \/ year % 400 = 0) THEN 29 ELSE 28
    ELSE IF month \in {4, 6, 9, 11} THEN 30 ELSE 31

\* no date: parse_date returns None
NoDate == [ok |-> FALSE, v |-> 0]

\* parse_date: the text before " as of ", stripped, read as %m/%d/%Y; the
\* date is the number yyyymmdd
parse_date(date_str) ==
    LET as_of == Find(date_str, <<" ", "a", "s", " ", "o", "f", " ">>)
        text == strip(IF as_of > 0 THEN SubSeq(date_str, 1, as_of - 1) ELSE date_str)
        slashes == {k \in 1..Len(text) : text[k] = "/"}
        first == CHOOSE k \in slashes : \A n \in slashes : k <= n
        second == CHOOSE k \in slashes : \A n \in slashes : n <= k
        month_str == SubSeq(text, 1, first - 1)
        day_field == SubSeq(text, first + 1, second - 1)
        day_str == IF Len(day_field) = 2 /\ Head(day_field) = " "
                   THEN Tail(day_field) ELSE day_field
        year_str == SubSeq(text, second + 1, Len(text))
        all_digits(s) == \A k \in 1..Len(s) : s[k] \in Digits
    IN  IF Cardinality(slashes) # 2 THEN NoDate
        ELSE IF \/ Len(month_str) \notin {1, 2} \/ ~all_digits(month_str)
                \/ Len(day_str) \notin {1, 2} \/ ~all_digits(day_str)
                \/ Len(year_str) # 4 \/ ~all_digits(year_str)
        THEN NoDate
        ELSE LET month == DigitsToInt(month_str)
                 day == DigitsToInt(day_str)
                 year == DigitsToInt(year_str)
             IN  IF \/ month < 1 \/ month > 12 \/ year < 1
                    \/ day < 1 \/ day > DaysInMonth(year, month)
                 THEN NoDate
                 ELSE Number(year * 10000 + month * 100 + day)

\* datetime.date.max as yyyymmdd
DATE_MAX == 99991231

\* get_sort_key of sort_by_date, without the constant second component
get_sort_key(headers, row) ==
    LET date == parse_date(row[Index(headers, "Date")])
    IN  IF date.ok THEN date.v ELSE DATE_MAX

\* sorted(rows, key=get_sort_key): a stable sort, by insertion from the left
RECURSIVE sort_by_date(_, _)
sort_by_date(all_rows, headers) ==
    IF all_rows = <<>> THEN <<>>
    ELSE LET front == sort_by_date(SubSeq(all_rows, 1, Len(all_rows) - 1), headers)
             last == all_rows[Len(all_rows)]
             before == SelectSeq(front, LAMBDA r :
                           get_sort_key(headers, r) <= get_sort_key(headers, last))
             after == SelectSeq(front, LAMBDA r :
                           get_sort_key(headers, r) > get_sort_key(headers, last))
         IN  before \o <<last>> \o after

SCHWAB_HEADERS ==
    <<"Date", "Action", "Symbol", "Description", "Price", "Quantity", "Fees & Comm", "Amount">>

CsvFile(name, headers, data_rows) == [name |-> name, headers |-> headers, rows |-> data_rows]

\* the files the driver is given
MergeFilePool ==
    {\* two rows, one of them the outgoing half of a share transfer
     CsvFile(<<"I","n","d","i","v","i","d","u","a","l","_","X","X","X","1","5","7","_","T","r","a","n","s","a","c","t","i","o","n","s",".","c","s","v">>,
         SCHWAB_HEADERS,
         <<<<<<"0","8","/","1","9","/","2","0","2","4">>, <<"B","u","y">>, <<"A","A","P","L">>, <<"A","P","P","L","E"," ","I","N","C">>, <<"$","1","5","0",".","0","0">>, <<"1","0">>, <<"$","1",".","0","0">>, <<"-","$","1",",","5","0","1",".","0","0">>>>,
           <<<<"0","8","/","1","8","/","2","0","2","4">>, <<"J","o","u","r","n","a","l","e","d"," ","S","h","a","r","e","s">>, <<"M","E","T","A">>, <<"M","E","T","A"," ","P","L","A","T","F","O","R","M","S"," ","I","N","C">>, <<"$","4","7","5",".","0","0">>, <<"-","1","6","1">>, <<>>, <<>>>>,
           <<<<>>, <<>>, <<>>, <<>>, <<>>, <<>>, <<>>, <<>>>>>>),
     \* columns in another order: the incoming half and a duplicate of the Buy row
     CsvFile(<<"S","C","H","W","A","B","1","_","X","X","X","9","6","4","_","T","r","a","n","s","a","c","t","i","o","n","s",".","c","s","v">>,
         <<"Action", "Date", "Symbol", "Description", "Quantity", "Price", "Fees & Comm", "Amount">>,
         <<<<<<"J","o","u","r","n","a","l","e","d"," ","S","h","a","r","e","s">>, <<"0","8","/","1","8","/","2","0","2","4">>, <<"M","E","T","A">>, <<"M","E","T","A"," ","P","L","A","T","F","O","R","M","S"," ","I","N","C">>, <<"1","6","1">>, <<"$","4","7","5",".","0","0">>, <<>>, <<>>>>,
           <<<<"B","u","y">>, <<"0","8","/","1","9","/","2","0","2","4">>, <<"A","A","P","L">>, <<"A","P","P","L","E"," ","I","N","C">>, <<"1","0">>, <<"$","1","5","0",".","0","0">>, <<"$","1",".","0","0">>, <<"-","$","1",",","5","0","1",".","0","0">>>>>>),
     \* no account number in the name: a cash transfer, a row dated 'as of', a row without a date
     CsvFile(<<"t","r","a","n","s","a","c","t","i","o","n","s",".","c","s","v">>,
         SCHWAB_HEADERS,
         <<<<<<"n","/","a">>, <<"S","e","l","l">>, <<"M","E","T","A">>, <<"M","E","T","A"," ","P","L","A","T","F","O","R","M","S"," ","I","N","C">>, <<"$","1","5","5",".","0","0">>, <<"5">>, <<"$","1",".","0","0">>, <<"$","7","7","4",".","0","0">>>>,
           <<<<"0","8","/","1","8","/","2","0","2","4">>, <<"J","o","u","r","n","a","l">>, <<>>, <<"J","O","U","R","N","A","L"," ","T","O"," ",".",".",".","1","5","7">>, <<>>, <<>>, <<>>, <<"-","$","1",",","0","0","0",".","0","0">>>>,
           <<<<"0","8","/","1","7","/","2","0","2","4"," ","a","s"," ","o","f"," ","0","8","/","1","6","/","2","0","2","4">>, <<"S","e","l","l">>, <<"M","E","T","A">>, <<"M","E","T","A"," ","P","L","A","T","F","O","R","M","S"," ","I","N","C">>, <<"$","1","5","5",".","0","0">>, <<"5">>, <<"$","1",".","0","0">>, <<"$","7","7","4",".","0","0">>>>>>),
     \* seven columns, Amount missing
     CsvFile(<<"X","X","X","9","6","4","1","_","o","l","d",".","c","s","v">>,
         <<"Date", "Action", "Symbol", "Description", "Price", "Quantity", "Fees & Comm">>,
         <<<<<<"0","8","/","1","9","/","2","0","2","4">>, <<"B","u","y">>, <<"A","A","P","L">>, <<"A","P","P","L","E"," ","I","N","C">>, <<"$","1","5","0",".","0","0">>, <<"1","0">>, <<"$","1",".","0","0">>>>>>),
     \* nine columns: a row, a row whose ninth field is not empty, a short row
     CsvFile(<<"I","n","d","i","v","i","d","u","a","l","_","X","X","X","1","5","7","_","2","0","2","3",".","c","s","v">>,
         <<"Date", "Action", "Symbol", "Description", "Price", "Quantity", "Fees & Comm", "Amount", "">>,
         <<<<<<"0","8","/","1","7","/","2","0","2","4"," ","a","s"," ","o","f"," ","0","8","/","1","6","/","2","0","2","4">>, <<"S","e","l","l">>, <<"M","E","T","A">>, <<"M","E","T","A"," ","P","L","A","T","F","O","R","M","S"," ","I","N","C">>, <<"$","1","5","5",".","0","0">>, <<"5">>, <<"$","1",".","0","0">>, <<"$","7","7","4",".","0","0">>, <<>>>>,
           <<<<"0","8","/","1","9","/","2","0","2","4">>, <<"B","u","y">>, <<"A","A","P","L">>, <<"A","P","P","L","E"," ","I","N","C">>, <<"$","1","5","0",".","0","0">>, <<"1","0">>, <<"$","1",".","0","0">>, <<"-","$","1",",","5","0","1",".","0","0">>, <<"x">>>>,
           <<<<"0","8","/","1","8","/","2","0","2","4">>, <<"J","o","u","r","n","a","l","e","d"," ","S","h","a","r","e","s">>, <<"M","E","T","A">>, <<"M","E","T","A"," ","P","L","A","T","F","O","R","M","S"," ","I","N","C">>, <<"$","4","7","5",".","0","0">>, <<"1","6","1">>>>>>),
     \* no header row
     CsvFile(<<"e","m","p","t","y","_","X","X","X","1","5","7",".","c","s","v">>,
         <<>>,
         <<>>),
     \* the incoming half of the cash transfer
     CsvFile(<<"J","o","i","n","t","_","X","X","X","9","6","4","_","T","r","a","n","s","a","c","t","i","o","n","s",".","c","s","v">>,
         SCHWAB_HEADERS,
         <<<<<<"0","8","/","1","8","/","2","0","2","4">>, <<"J","o","u","r","n","a","l">>, <<>>, <<"J","O","U","R","N","A","L"," ","F","R","M"," ",".",".",".","1","5","7">>, <<>>, <<>>, <<>>, <<"$","1",",","0","0","0",".","0","0">>>>>>)}

InitMerge ==
    /\ md_files \in SeqsUpTo(MergeFilePool, MaxFiles) \ {<<>>}
    /\ md_keep \in BOOLEAN
    /\ md_pc = "validate"
    /\ md_headers = <<>>
    /\ md_rows = <<>>
    /\ md_accounts = AccountsNone
    /\ md_written = <<>>
    /\ md_exit = <<>>
    /\ TransferIdle
    /\ ResolverIdle
    /\ GenerateIdle
    /\ RoundingIdle
    /\ AwardsIdle

\* Step 1: validate_schwab_csv on every file, collecting the headers
ValidateFiles ==
    /\ md_pc = "validate"
    /\ IF \E k \in 1..Len(md_files) : HeadersInvalid(md_files[k])
       THEN /\ md_pc' = "exit"
            /\ md_exit' = <<1>>
            /\ UNCHANGED md_headers
       ELSE /\ md_pc' = "check"
            /\ md_headers' = [k \in 1..Len(md_files) |-> md_files[k].headers]
            /\ UNCHANGED md_exit
    /\ UNCHANGED <<md_files, md_keep, md_rows, md_accounts, md_written>>
    /\ UNCHANGED <<tm_vars, sr_vars, gs_vars, rf_vars, aw_vars>>

\* Step 2: every file has the header set of the first file
CheckHeaders ==
    /\ md_pc = "check"
    /\ IF \E k \in 2..Len(md_headers) : SetOf(md_headers[k]) # SetOf(md_headers[1])
       THEN /\ md_pc' = "exit"
            /\ md_exit' = <<1>>
       ELSE /\ md_pc' = "read"
            /\ UNCHANGED md_exit
    /\ UNCHANGED <<md_files, md_keep, md_headers, md_rows, md_accounts, md_written>>
    /\ UNCHANGED <<tm_vars, sr_vars, gs_vars, rf_vars, aw_vars>>

\* Step 3: read_schwab_csv on every file, in the column order of the first
ReadFiles ==
    /\ md_pc = "read"
    /\ md_rows' = ReadAll(md_files, md_headers[1])
    /\ md_pc' = "dedup"
    /\ UNCHANGED <<md_files, md_keep, md_headers, md_accounts, md_written, md_exit>>
    /\ UNCHANGED <<tm_vars, sr_vars, gs_vars, rf_vars, aw_vars>>

\* Step 4: remove_duplicates
RemoveDuplicates ==
    /\ md_pc = "dedup"
    /\ md_rows' = remove_duplicates(md_rows)
    /\ md_pc' = "accounts"
    /\ UNCHANGED <<md_files, md_keep, md_headers, md_accounts, md_written, md_exit>>
    /\ UNCHANGED <<tm_vars, sr_vars, gs_vars, rf_vars, aw_vars>>

\* account extraction keeping the numbers it found when a name has none
ExtractAccountNumbersPartial ==
    /\ md_pc = "accounts"
    /\ md_accounts' =
           Accounts({extract_account_number(md_files[k].name) : k \in 1..Len(md_files)}
                    \ {NoAccount})
    /\ md_pc' = "filter"
    /\ UNCHANGED <<md_files, md_keep, md_headers, md_rows, md_written, md_exit>>
    /\ UNCHANGED <<tm_vars, sr_vars, gs_vars, rf_vars, aw_vars>>

\* the account numbers of the file names; None as soon as one name has none
ExtractAccountNumbers ==
    /\ md_pc = "accounts"
    /\ \E missing_account_info \in
             {{k \in 1..Len(md_files) : extract_account_number(md_files[k].name) = NoAccount}} :
          md_accounts' =
              IF missing_account_info # {} THEN AccountsNone
              ELSE Accounts({extract_account_number(md_files[k].name) : k \in 1..Len(md_files)})
    /\ md_pc' = "filter"
    /\ UNCHANGED <<md_files, md_keep, md_headers, md_rows, md_written, md_exit>>
    /\ UNCHANGED <<tm_vars, sr_vars, gs_vars, rf_vars, aw_vars>>

\* Step 4.5 going on to the sort when filter_journaled_shares raises
FilterTransfersIgnoringError ==
    /\ md_pc = "filter"
    /\ md_pc' = "sort"
    /\ UNCHANGED <<md_files, md_keep, md_headers, md_rows, md_accounts, md_written, md_exit>>
    /\ UNCHANGED <<tm_vars, sr_vars, gs_vars, rf_vars, aw_vars>>

\* Step 4.5: filter_journaled_shares(all_rows, reference_headers,
\* keep_unmatched_transfers, account_numbers); ValidationError ends the run
FilterTransfers ==
    /\ md_pc = "filter"
    /\ \E all_rows \in {[k \in 1..Len(md_rows) |->
                            [Cells |-> md_rows[k]] @@ RowOf(md_headers[1], md_rows[k])]} :
       \E parts \in {_separate_by_action(all_rows)} :
       \E journaled_matched \in {_match_journaled_shares(parts.journaled_rows)} :
       \E journal_matched \in {_match_journal_transfers(parts.journal_rows, md_accounts)} :
       \E raised \in {_validate_unmatched_transfers(
                          parts.journaled_rows, journaled_matched,
                          parts.journal_rows, journal_matched,
                          md_accounts, md_keep)} :
       \E combined \in {_combine_results(
                          parts.other_rows,
                          parts.journaled_rows, journaled_matched,
                          parts.journal_rows, journal_matched,
                          md_keep)} :
          IF parts.journaled_rows = <<>> /\ parts.journal_rows = <<>>
          THEN /\ md_pc' = "sort"
               /\ UNCHANGED <<md_rows, md_exit>>
          ELSE IF raised.raised
          THEN /\ md_pc' = "exit"
               /\ md_exit' = <<1>>
               /\ UNCHANGED md_rows
          ELSE /\ md_pc' = "sort"
               /\ md_rows' = [k \in 1..Len(combined) |-> combined[k].Cells]
               /\ UNCHANGED md_exit
    /\ UNCHANGED <<md_files, md_keep, md_headers, md_accounts, md_written>>
    /\ UNCHANGED <<tm_vars, sr_vars, gs_vars, rf_vars, aw_vars>>

\* Step 5: sort_by_date
SortByDate ==
    /\ md_pc = "sort"
    /\ md_rows' = sort_by_date(md_rows, md_headers[1])
    /\ md_pc' = "write"
    /\ UNCHANGED <<md_files, md_keep, md_headers, md_accounts, md_written, md_exit>>
    /\ UNCHANGED <<tm_vars, sr_vars, gs_vars, rf_vars, aw_vars>>

\* Step 7: write_merged_csv; main returns 1 when it raises, 0 otherwise
WriteOutput ==
    /\ md_pc = "write"
    /\ md_written' = Append(md_written, [headers |-> md_headers[1], rows |-> md_rows])
    /\ \E write_fails \in BOOLEAN : md_exit' = IF write_fails THEN <<1>> ELSE <<0>>
    /\ md_pc' = "exit"
    /\ UNCHANGED <<md_files, md_keep, md_headers, md_rows, md_accounts>>
    /\ UNCHANGED <<tm_vars, sr_vars, gs_vars, rf_vars, aw_vars>>

NextMerge ==
    \/ ValidateFiles
    \/ CheckHeaders
    \/ ReadFiles
    \/ RemoveDuplicates
    \/ ExtractAccountNumbers
    \/ FilterTransfers
    \/ SortByDate
    \/ WriteOutput

SpecMerge == InitMerge /\ [][NextMerge]_vars

-----------------------------------------------------------------------------
(* Properties of the merge driver *)

\* all_rows of main as the records the transfer matcher reads
MergeRecords == [k \in 1..Len(md_rows) |-> RowOf(md_headers[1], md_rows[k])]

\* the step main is about to run reports a validation error
StepReportsError ==
    \/ md_pc = "validate" /\ \E k \in 1..Len(md_files) : HeadersInvalid(md_files[k])
    \/ /\ md_pc = "check"
       /\ \E k \in 2..Len(md_files) :
              SetOf(md_files[k].headers) # SetOf(md_files[1].headers)
    \/ md_pc = "filter" /\ Raises(MergeRecords, md_accounts, md_keep)

\* the steps of main in the order of the claim, account extraction included
StepOrder ==
    <<"validate", "check", "read", "dedup", "accounts", "filter", "sort", "write", "exit">>

\* C21: the output file is written only after header validation of every
\* file, the header-set check, duplicate removal, transfer matching and the
\* date sort have completed without error, in that order; a step that reports
\* a validation error makes main return 1 without write_merged_csv ever
\* being called.
C21_WriteOnlyAfterAllSteps ==
    [][/\ StepReportsError =>
            (md_pc' = "exit" /\ md_exit' = <<1>> /\ md_written' = <<>>)
       /\ ~StepReportsError =>
            (md_pc' = StepOrder[Index(StepOrder, md_pc) + 1])
       /\ md_written' # md_written =>
            /\ md_pc = "write"
            /\ md_written = <<>>
            /\ md_written' = <<[headers |-> md_files[1].headers, rows |-> md_rows]>>
       /\ md_exit' = <<0>> => md_pc = "write"]_md_vars

\* a run over two files that removed rows and wrote the output
C21_Witness ==
    /\ md_pc = "exit"
    /\ md_exit = <<0>>
    /\ Len(md_files) = 2
    /\ md_written # <<>>
    /\ Len(md_written[1].rows) < Len(ReadAll(md_files, md_files[1].headers))

\* the names of the input files an account number can be extracted from
NamesWithAccount ==
    {k \in 1..Len(md_files) : extract_account_number(md_files[k].name) # NoAccount}

\* the account set of the claim: the numbers of all names, or none at all
AllOrNothingAccounts ==
    IF NamesWithAccount = 1..Len(md_files)
    THEN Accounts({extract_account_number(md_files[k].name) : k \in 1..Len(md_files)})
    ELSE AccountsNone

\* C22: account verification is all-or-nothing: the transfer matcher receives
\* the account numbers of the file names when every name has one, and no
\* account set, for the matching and for the unmatched-row policy, as soon as
\* one name has none.
C22_AccountsAllOrNothing ==
    [][/\ md_pc = "accounts" => md_accounts' = AllOrNothingAccounts
       /\ md_pc = "filter" =>
            /\ md_accounts = AllOrNothingAccounts
            /\ md_exit' = <<1>> <=> Raises(MergeRecords, AllOrNothingAccounts, md_keep)]_md_vars

\* a run over a file named with an account number and a file named without:
\* the cash transfer between them is matched and removed
C22_Witness ==
    /\ md_pc = "exit"
    /\ md_exit = <<0>>
    /\ ~md_keep
    /\ NamesWithAccount # {} /\ NamesWithAccount # 1..Len(md_files)
    /\ md_accounts = AccountsNone
    /\ \E k \in 1..Len(md_files) : \E n \in 1..Len(md_files[k].rows) :
           STR_JOURNAL \in SetOf(md_files[k].rows[n])
    /\ \A n \in 1..Len(md_written[1].rows) :
           STR_JOURNAL \notin SetOf(md_written[1].rows[n])

-----------------------------------------------------------------------------
(* The merge driver over one file that holds any list of rows *)

\* two rows and a row that differs from the first in its last character
DedupRowPool ==
    {<<<<"0","1","/","1","5","/","2","0","2","4">>, <<"B","u","y">>, <<"A","A","P","L">>, <<"A","P","P","L","E"," ","I","N","C">>, <<"$","1","5","0",".","0","0">>, <<"1","0">>, <<"$","1",".","0","0">>, <<"-","$","1",",","5","0","1",".","0","0">>>>,
     <<<<"0","1","/","2","0","/","2","0","2","4">>, <<"S","e","l","l">>, <<"A","A","P","L">>, <<"A","P","P","L","E"," ","I","N","C">>, <<"$","1","5","5",".","0","0">>, <<"5">>, <<"$","1",".","0","0">>, <<"$","7","7","4",".","0","0">>>>,
     <<<<"0","1","/","1","5","/","2","0","2","4">>, <<"B","u","y">>, <<"A","A","P","L">>, <<"A","P","P","L","E"," ","I","N","C">>, <<"$","1","5","0",".","0","0">>, <<"1","0">>, <<"$","1",".","0","0">>, <<"-","$","1",",","5","0","1",".","0","1">>>>}

InitDedup ==
    /\ md_files \in
           {<<CsvFile(<<"X","X","X","1","5","7",".","c","s","v">>, SCHWAB_HEADERS, data_rows)>> :
               data_rows \in SeqsUpTo(DedupRowPool, MaxDedupRows)}
    /\ md_keep \in BOOLEAN
    /\ md_pc = "validate"
    /\ md_headers = <<>>
    /\ md_rows = <<>>
    /\ md_accounts = AccountsNone
    /\ md_written = <<>>
    /\ md_exit = <<>>
    /\ TransferIdle
    /\ ResolverIdle
    /\ GenerateIdle
    /\ RoundingIdle
    /\ AwardsIdle

SpecDedup == InitDedup /\ [][NextMerge]_vars

-----------------------------------------------------------------------------
(* Properties of remove_duplicates *)

\* C23: remove_duplicates returns every distinct row of its input exactly
\* once, in the order of first occurrence; it is idempotent, and the list
\* concatenated with itself gives the same result as the list.
C23_DistinctRowsInFirstOrder ==
    [][md_pc = "dedup" =>
          /\ SetOf(md_rows') = SetOf(md_rows)
          /\ \A r \in SetOf(md_rows) : Count(md_rows', r) = 1
          /\ \A i, j \in 1..Len(md_rows') :
                 i < j => Index(md_rows, md_rows'[i]) < Index(md_rows, md_rows'[j])
          /\ remove_duplicates(md_rows') = md_rows'
          /\ remove_duplicates(md_rows \o md_rows) = md_rows']_md_vars

\* duplicates were removed from a list in which a row comes back after
\* another row
C23_Witness ==
    /\ md_pc = "accounts"
    /\ Len(md_rows) = 2
    /\ Len(md_files[1].rows) = 4
    /\ md_files[1].rows[1] = md_files[1].rows[3]
    /\ md_files[1].rows[1] # md_files[1].rows[2]

-----------------------------------------------------------------------------
(* Award files: merge_awards.  Every award is two lines of 15 fields; columns
   are numbered from 0 as in the source. *)

EXPECTED_COLUMN_COUNT == 15

UPPER_ROW_COLUMNS == {0, 1, 2, 3, 4}

LOWER_ROW_COLUMNS == {8, 9, 10, 11, 12, 13, 14}

\* {header: i for i, header in enumerate(headers)}: a header that occurs more
\* than once keeps its last position
file_header_indices(headers) ==
    [h \in SetOf(headers) |->
        CHOOSE i \in 0..(Len(headers) - 1) :
            /\ headers[i + 1] = h
            /\ \A n \in (i + 1)..(Len(headers) - 1) : headers[n + 1] # h]

\* merge_row_pair: the merged row, or raised when it raises ValidationError
merge_row_pair(upper_line, lower_line) ==
    IF Len(upper_line) # EXPECTED_COLUMN_COUNT \/ Len(lower_line) # EXPECTED_COLUMN_COUNT
    THEN [raised |-> TRUE, row |-> <<>>]
    ELSE IF \E i \in 1..Len(upper_line) : upper_line[i] # <<>> /\ lower_line[i] # <<>>
    THEN [raised |-> TRUE, row |-> <<>>]
    ELSE [raised |-> FALSE, row |-> [i \in 1..Len(upper_line) |-> upper_line[i] \o lower_line[i]]]

\* split_merged_row on a row of 15 fields
split_merged_row(merged_row) ==
    [upper |-> [k \in 1..Len(merged_row) |->
                   IF k - 1 \in UPPER_ROW_COLUMNS THEN merged_row[k] ELSE <<>>],
     lower |-> [k \in 1..Len(merged_row) |->
                   IF k - 1 \in UPPER_ROW_COLUMNS THEN <<>>
                   ELSE IF k - 1 \in LOWER_ROW_COLUMNS THEN merged_row[k] ELSE <<>>]]

\* the loop of read_schwab_awards_csv over the pairs of lines from pair n on
RECURSIVE ReadPairs(_, _, _)
ReadPairs(lines, reference_indices, n) ==
    IF 2 * n > Len(lines) THEN [raised |-> FALSE, rows |-> <<>>]
    ELSE LET upper_line == lines[2 * n - 1]
             lower_line == lines[2 * n]
             upper_remapped == [k \in 1..Len(reference_indices) |-> upper_line[reference_indices[k] + 1]]
             lower_remapped == [k \in 1..Len(reference_indices) |-> lower_line[reference_indices[k] + 1]]
             merged == merge_row_pair(upper_remapped, lower_remapped)
             rest == ReadPairs(lines, reference_indices, n + 1)
         IN  IF Len(upper_line) # EXPECTED_COLUMN_COUNT \/ Len(lower_line) # EXPECTED_COLUMN_COUNT
             THEN [raised |-> TRUE, rows |-> <<>>]
             ELSE IF merged.raised \/ rest.raised
             THEN [raised |-> TRUE, rows |-> <<>>]
             ELSE [raised |-> FALSE, rows |-> <<merged.row>> \o rest.rows]

read_schwab_awards_csv(file, reference_headers) ==
    ReadPairs(file.lines,
              [k \in 1..Len(reference_headers) |->
                  file_header_indices(file.headers)[reference_headers[k]]],
              1)

\* the data lines write_merged_awards_csv writes
RECURSIVE write_merged_awards_csv(_)
write_merged_awards_csv(merged_rows) ==
    IF merged_rows = <<>> THEN <<>>
    ELSE <<split_merged_row(Head(merged_rows)).upper,
           split_merged_row(Head(merged_rows)).lower>>
         \o write_merged_awards_csv(Tail(merged_rows))

\* the header row of an award file as Schwab exports it
AWARD_HEADERS ==
    <<"Date", "Action", "Symbol", "Description", "Quantity", "", "", "",
      "AwardDate", "AwardId", "AwardName", "FairMarketValuePrice",
      "PurchasePrice", "Quantity", "NetSharesDeposited">>

\* a header row of 15 different names
DISTINCT_AWARD_HEADERS ==
    <<"Date", "Action", "Symbol", "Description", "Quantity", "Empty1", "Empty2",
      "Empty3", "AwardDate", "AwardId", "AwardName", "FairMarketValuePrice",
      "PurchasePrice", "SharesSold", "NetSharesDeposited">>

\* first lines of an award: the last one also holds a value in column 8
UpperLinePool ==
    {<<<<"1","1","/","1","5","/","2","0","2","1">>, <<"S","t","o","c","k"," ","P","l","a","n"," ","A","c","t","i","v","i","t","y">>, <<"M","E","T","A">>, <<"M","E","T","A"," ","P","L","A","T","F","O","R","M","S"," ","I","N","C">>, <<"8","1">>, <<>>, <<>>, <<>>, <<>>, <<>>, <<>>, <<>>, <<>>, <<>>, <<>>>>,
     <<<<"1","1","/","1","6","/","2","0","2","1">>, <<"S","t","o","c","k"," ","P","l","a","n"," ","A","c","t","i","v","i","t","y">>, <<"M","E","T","A">>, <<>>, <<"7">>, <<>>, <<>>, <<>>, <<>>, <<>>, <<>>, <<>>, <<>>, <<>>, <<>>>>,
     <<<<"1","1","/","1","5","/","2","0","2","1">>, <<"S","t","o","c","k"," ","P","l","a","n"," ","A","c","t","i","v","i","t","y">>, <<"M","E","T","A">>, <<"M","E","T","A"," ","P","L","A","T","F","O","R","M","S"," ","I","N","C">>, <<>>, <<>>, <<>>, <<>>, <<>>, <<>>, <<>>, <<>>, <<>>, <<>>, <<>>>>,
     <<<<"1","1","/","1","5","/","2","0","2","1">>, <<"S","t","o","c","k"," ","P","l","a","n"," ","A","c","t","i","v","i","t","y">>, <<"M","E","T","A">>, <<"M","E","T","A"," ","P","L","A","T","F","O","R","M","S"," ","I","N","C">>, <<"8","1">>, <<>>, <<>>, <<>>, <<"1","1","/","1","5","/","2","0","2","1">>, <<>>, <<>>, <<>>, <<>>, <<>>, <<>>>>}

\* second lines of an award
LowerLinePool ==
    {<<<<>>, <<>>, <<>>, <<>>, <<>>, <<>>, <<>>, <<>>, <<"1","1","/","1","5","/","2","0","2","1">>, <<"1","2","3","4","5","6">>, <<"R","S","U"," ","A","W","A","R","D">>, <<"$","3","3","8",".","5","4">>, <<"$","0",".","0","0">>, <<"1","6","2">>, <<"8","1">>>>,
     <<<<>>, <<>>, <<>>, <<>>, <<>>, <<>>, <<>>, <<>>, <<"1","1","/","1","6","/","2","0","2","1">>, <<"1","2","3","4","5","7">>, <<"R","S","U"," ","A","W","A","R","D">>, <<"$","3","4","0",".","0","0">>, <<>>, <<>>, <<"7">>>>,
     <<<<>>, <<>>, <<>>, <<>>, <<>>, <<>>, <<>>, <<>>, <<"1","1","/","1","5","/","2","0","2","1">>, <<"1","2","3","4","5","6">>, <<"R","S","U"," ","A","W","A","R","D">>, <<"$","3","3","8",".","5","4">>, <<"$","0",".","0","0">>, <<"1","6","2">>, <<>>>>}

\* the line lists of n awards
RECURSIVE AwardLines(_)
AwardLines(n) ==
    IF n = 0 THEN {<<>>}
    ELSE {<<upper_line, lower_line>> \o rest :
             upper_line \in UpperLinePool, lower_line \in LowerLinePool, rest \in AwardLines(n - 1)}

InitAwards ==
    /\ aw_file \in {[headers |-> headers, lines |-> lines] :
                        headers \in {AWARD_HEADERS, DISTINCT_AWARD_HEADERS},
                        lines \in UNION {AwardLines(n) : n \in 0..MaxAwards}}
    /\ aw_pc = "read"
    /\ aw_merged = <<>>
    /\ aw_written = <<>>
    /\ TransferIdle
    /\ ResolverIdle
    /\ GenerateIdle
    /\ RoundingIdle
    /\ MergeIdle

\* read_schwab_awards_csv(filepath, headers) with the headers of the file
ReadAwards ==
    /\ aw_pc = "read"
    /\ \E read \in {read_schwab_awards_csv(aw_file, aw_file.headers)} :
          IF read.raised
          THEN /\ aw_pc' = "raised"
               /\ UNCHANGED aw_merged
          ELSE /\ aw_pc' = "write"
               /\ aw_merged' = read.rows
    /\ UNCHANGED <<aw_file, aw_written>>
    /\ UNCHANGED <<tm_vars, sr_vars, gs_vars, rf_vars, md_vars>>

\* write_merged_awards_csv(output_path, headers, merged_rows)
WriteAwards ==
    /\ aw_pc = "write"
    /\ aw_written' = write_merged_awards_csv(aw_merged)
    /\ aw_pc' = "written"
    /\ UNCHANGED <<aw_file, aw_merged>>
    /\ UNCHANGED <<tm_vars, sr_vars, gs_vars, rf_vars, md_vars>>

NextAwards == ReadAwards \/ WriteAwards

SpecAwards == InitAwards /\ [][NextAwards]_vars

-----------------------------------------------------------------------------
(* Properties of the award files *)

\* the first line holds values in columns 0-4 only, the second in columns
\* 8-14 only
WellFormedPair(upper_line, lower_line) ==
    /\ Len(upper_line) = EXPECTED_COLUMN_COUNT /\ Len(lower_line) = EXPECTED_COLUMN_COUNT
    /\ \A k \in 1..Len(upper_line) : k - 1 \notin UPPER_ROW_COLUMNS => upper_line[k] = <<>>
    /\ \A k \in 1..Len(lower_line) : k - 1 \notin LOWER_ROW_COLUMNS => lower_line[k] = <<>>

WellFormedFile ==
    \A n \in 1..(Len(aw_file.lines) \div 2) :
        WellFormedPair(aw_file.lines[2 * n - 1], aw_file.lines[2 * n])

\* C24: an award file of well-formed pairs, read with its own header list as
\* reference and written back, gives the lines of the file, every value in
\* its line and column.
C24_AwardRoundTrip ==
    WellFormedFile =>
        /\ aw_pc # "raised"
        /\ aw_pc = "written" => aw_written = aw_file.lines

-----------------------------------------------------------------------------
(* Further properties of the transfer matcher *)

\* the reference procedure of greedy first-found matching from row i on: a
\* row not yet matched is paired with the first later row that is not yet
\* matched and can be paired with it
RECURSIVE GreedyPairs(_, _, _, _)
GreedyPairs(kind_rows, accounts, i, pairs) ==
    IF i > Len(kind_rows) THEN pairs
    ELSE LET candidates ==
                 {j \in (i + 1)..Len(kind_rows) :
                     /\ j \notin PairIndices(pairs)
                     /\ CanPair(kind_rows[i], kind_rows[j], accounts)}
         IN  IF i \in PairIndices(pairs) \/ candidates = {}
             THEN GreedyPairs(kind_rows, accounts, i + 1, pairs)
             ELSE GreedyPairs(kind_rows, accounts, i + 1,
                      pairs \cup {<<i, CHOOSE j \in candidates :
                                          \A x \in candidates : j <= x>>})

\* C25: for each transfer kind the pairs found are those of the reference
\* procedure: in input order, each row not yet matched is paired with the
\* smallest later index that is not yet matched and satisfies the match
\* predicate, the account check included; no other pairing is chosen.
C25_GreedyFirstFound ==
    tm_pc # "call" =>
        /\ journaled_pairs = GreedyPairs(InJournaledRows, account_numbers, 1, {})
        /\ journal_pairs = GreedyPairs(InJournalRows, account_numbers, 1, {})

\* the first 'Journal' row could be paired with the second and with the
\* third, and was paired with the second
C25_Witness ==
    /\ tm_pc # "call"
    /\ Len(InJournalRows) = 3
    /\ CanPair(InJournalRows[1], InJournalRows[2], account_numbers)
    /\ CanPair(InJournalRows[1], InJournalRows[3], account_numbers)
    /\ journal_pairs = {<<1, 2>>}

-----------------------------------------------------------------------------
(* Further properties of the symbol resolver *)

\* the rows before row k that are eligible and have the normalized
\* description of row k
ResolvedEarlier(k) ==
    {j \in 1..(k - 1) : Eligible(j) /\ DescriptionKey(j) = DescriptionKey(k)}

\* the entry of the provenance log for the row at position k
LogEntryOf(k) == CHOOSE e \in Range(Log) : e.row = k + 1

\* the number of eligible rows before row k that were resolved by generation
\* and whose description gives the acronym x
AcronymsBefore(k, x) ==
    Cardinality({j \in 1..(k - 1) :
        /\ Eligible(j)
        /\ DescriptionKey(j) # <<>>
        /\ DescriptionKey(j) \notin DOMAIN mapping
        /\ ResolvedEarlier(j) = {}
        /\ generate_symbol_from_description(strip(sr_input[j].Description)) = x})

\* C26: for an eligible row with a non-empty description the provenance is
\* REUSED exactly when the normalized description was resolved earlier in the
\* run, also when it is a key of the mapping; otherwise MAPPED exactly when
\* it is a key of the mapping; otherwise GENERATED. The symbol is the
\* memoized symbol, the symbol of the mapping, or the acronym with its
\* collision suffix.
C26_ResolutionOrder ==
    \A k \in 1..(sr_next - 1) :
        (Eligible(k) /\ DescriptionKey(k) # <<>>) =>
            /\ \E e \in Range(Log) : e.row = k + 1
            /\ sr_rows[k].Symbol = LogEntryOf(k).symbol
            /\ IF ResolvedEarlier(k) # {}
               THEN /\ LogEntryOf(k).source = "REUSED"
                    /\ \A j \in ResolvedEarlier(k) :
                          LogEntryOf(k).symbol = sr_rows[j].Symbol
               ELSE IF DescriptionKey(k) \in DOMAIN mapping
               THEN /\ LogEntryOf(k).source = "MAPPED"
                    /\ LogEntryOf(k).symbol = mapping[DescriptionKey(k)]
               ELSE /\ LogEntryOf(k).source = "GENERATED"
                    /\ LogEntryOf(k).symbol =
                          LET x == generate_symbol_from_description(
                                       strip(sr_input[k].Description))
                              n == AcronymsBefore(k, x)
                          IN  IF n = 0 THEN x ELSE x \o IntToStr(n)

\* a description of the mapping was resolved twice, the second time as
\* REUSED, and another row got an acronym with a collision suffix
C26_Witness ==
    /\ ResolverDone
    /\ \E j, k \in 1..Len(sr_input) :
          /\ j < k
          /\ Eligible(j) /\ Eligible(k)
          /\ DescriptionKey(k) \in DOMAIN mapping
          /\ DescriptionKey(j) = DescriptionKey(k)
          /\ LogEntryOf(j).source = "MAPPED"
          /\ LogEntryOf(k).source = "REUSED"
          /\ sr_rows[k].Symbol = mapping[DescriptionKey(k)]
    /\ \E k \in 1..Len(sr_input) :
          /\ Eligible(k)
          /\ DescriptionKey(k) # <<>>
          /\ LogEntryOf(k).source = "GENERATED"

\* the number of entries of the provenance log with the source src
SourceCount(src) == Cardinality({n \in 1..Len(Log) : Log[n].source = src})

\* C29: after a resolver run missing_symbols is the number of log entries,
\* symbols_mapped the number of entries with source MAPPED and
\* symbols_generated the number of entries with source GENERATED.
C29_CountsAgreeWithLog ==
    ResolverDone =>
        /\ tracker.missing_symbols = Len(Log)
        /\ tracker.symbols_mapped = SourceCount("MAPPED")
        /\ tracker.symbols_generated = SourceCount("GENERATED")

-----------------------------------------------------------------------------
(* The order of the transfer rows kept *)

\* the position of the input row k among the input rows of its Action
KindIndex(k) ==
    Cardinality({j \in 1..k : rows[j].Action = rows[k].Action})

\* the input row k is a transfer row outside every matched pair
UnmatchedTransfer(k) ==
    \/ /\ rows[k].Action = STR_JOURNALED_SHARES
       /\ KindIndex(k) \in JournaledUnmatched
    \/ /\ rows[k].Action = STR_JOURNAL
       /\ KindIndex(k) \in JournalUnmatched

\* the unmatched transfer rows among the first n input rows, in input order
RECURSIVE UnmatchedInInputOrder(_)
UnmatchedInInputOrder(n) ==
    IF n = 0 THEN <<>>
    ELSE IF UnmatchedTransfer(n) THEN Append(UnmatchedInInputOrder(n - 1), rows[n])
    ELSE UnmatchedInInputOrder(n - 1)

\* C27: with keep_unmatched true the unmatched transfer rows kept in the
\* result are in the order of the input, rows of different transfer kinds
\* included.
C27_UnmatchedKeepInputOrder ==
    (tm_pc = "returned" /\ keep_unmatched) =>
        SelectSeq(result, LAMBDA r : ~IsOtherRow(r)) = UnmatchedInInputOrder(Len(rows))

\* the same for the rows of each transfer kind taken alone
UnmatchedKeepInputOrderPerKind ==
    (tm_pc = "returned" /\ keep_unmatched) =>
        /\ SelectSeq(result, LAMBDA r : r.Action = STR_JOURNALED_SHARES)
              = SelectSeq(UnmatchedInInputOrder(Len(rows)),
                          LAMBDA r : r.Action = STR_JOURNALED_SHARES)
        /\ SelectSeq(result, LAMBDA r : r.Action = STR_JOURNAL)
              = SelectSeq(UnmatchedInInputOrder(Len(rows)),
                          LAMBDA r : r.Action = STR_JOURNAL)

-----------------------------------------------------------------------------
(* filter_journaled_shares called on transfer rows whose quantities and
   amounts differ in sign and size *)

\* 'Journaled Shares' rows and 'Journal' rows equal in all fields but the
\* quantity or the amount and the direction
SignRowPool ==
    {JournaledSharesRow(DATE_0818, SYM_META, <<"$","4","7","5",".","0","0">>,
         <<"-","1","6","1">>),
     JournaledSharesRow(DATE_0818, SYM_META, <<"$","4","7","5",".","0","0">>,
         <<"1","6","1">>),
     JournaledSharesRow(DATE_0818, SYM_META, <<"$","4","7","5",".","0","0">>,
         <<"1","6","1",".","0","0","5">>),
     JournaledSharesRow(DATE_0818, SYM_META, <<"$","4","7","5",".","0","0">>,
         <<"0">>),
     JournaledSharesRow(DATE_0818, SYM_META, <<"$","4","7","5",".","0","0">>,
         <<"0",".","0","0","4">>),
     JournalRow(DATE_0818,
         <<"J","O","U","R","N","A","L"," ","T","O"," ",".",".",".","9","6","4">>,
         <<"-","$","1",",","0","0","0",".","0","0">>),
     JournalRow(DATE_0818,
         <<"J","O","U","R","N","A","L"," ","F","R","M"," ",".",".",".","1","5","7">>,
         <<"$","1",",","0","0","0",".","0","0">>),
     JournalRow(DATE_0818,
         <<"J","O","U","R","N","A","L"," ","T","O"," ",".",".",".","9","6","4">>,
         <<"$","0",".","0","0">>),
     JournalRow(DATE_0818,
         <<"J","O","U","R","N","A","L"," ","F","R","M"," ",".",".",".","1","5","7">>,
         <<"$","0",".","0","0">>)}

InitSigns ==
    /\ rows \in SeqsUpTo(SignRowPool, MaxRows)
    /\ keep_unmatched \in BOOLEAN
    /\ account_numbers \in AccountChoices
    /\ tm_pc = "call"
    /\ result = <<>>
    /\ error = NoError
    /\ journaled_pairs = {}
    /\ journal_pairs = {}
    /\ ResolverIdle
    /\ GenerateIdle
    /\ RoundingIdle
    /\ MergeIdle
    /\ AwardsIdle

SpecSigns == InitSigns /\ [][NextTransfer]_vars

\* C28: the two quantities of every matched pair of 'Journaled Shares' rows
\* have opposite signs and the same absolute value, and the two amounts of
\* every matched pair of 'Journal' rows have opposite signs; rows whose
\* quantities or amounts have the same sign or are both zero are not matched.
C28_MatchedPairsOpposite ==
    tm_pc # "call" =>
        /\ \A p \in journaled_pairs :
              LET qty1 == parse_quantity(InJournaledRows[p[1]].Quantity).v
                  qty2 == parse_quantity(InJournaledRows[p[2]].Quantity).v
              IN  /\ (qty1 < 0 /\ qty2 > 0) \/ (qty1 > 0 /\ qty2 < 0)
                  /\ Abs(qty1) = Abs(qty2)
        /\ \A p \in journal_pairs :
              LET amt1 == _parse_amount(InJournalRows[p[1]].Amount).v
                  amt2 == _parse_amount(InJournalRows[p[2]].Amount).v
              IN  (amt1 < 0 /\ amt2 > 0) \/ (amt1 > 0 /\ amt2 < 0)

\* the same for the pairs whose two quantities or amounts are not both within
\* the tolerance of zero
MatchedPairsOppositeAwayFromZero ==
    tm_pc # "call" =>
        /\ \A p \in journaled_pairs :
              LET qty1 == parse_quantity(InJournaledRows[p[1]].Quantity).v
                  qty2 == parse_quantity(InJournaledRows[p[2]].Quantity).v
              IN  Abs(qty1) >= MatchTolerance =>
                      /\ (qty1 < 0 /\ qty2 > 0) \/ (qty1 > 0 /\ qty2 < 0)
                      /\ Abs(Abs(qty1) - Abs(qty2)) < MatchTolerance
        /\ \A p \in journal_pairs :
              LET amt1 == _parse_amount(InJournalRows[p[1]].Amount).v
                  amt2 == _parse_amount(InJournalRows[p[2]].Amount).v
              IN  Abs(amt1) >= MatchTolerance =>
                      (amt1 < 0 /\ amt2 > 0) \/ (amt1 > 0 /\ amt2 < 0)

\* two 'Journaled Shares' rows of quantity 0 are matched with each other
ZeroQuantitiesMatched ==
    /\ tm_pc # "call"
    /\ \E p \in journaled_pairs :
          /\ parse_quantity(InJournaledRows[p[1]].Quantity).v = 0
          /\ parse_quantity(InJournaledRows[p[2]].Quantity).v = 0

-----------------------------------------------------------------------------
(* The shape of the matched pairs *)

\* the pairs are disjoint, none pairs an index with itself, and the indices
\* they cover are twice as many as the pairs
DisjointPairs(pairs) ==
    /\ \A p \in pairs : p[1] # p[2]
    /\ \A p, q \in pairs : p # q => {p[1], p[2]} \cap {q[1], q[2]} = {}
    /\ Cardinality(PairIndices(pairs)) = 2 * Cardinality(pairs)

\* C30: the matched rows form disjoint pairs of one kind: each transfer row
\* is in at most one pair, no row is paired with itself, the two rows of a
\* pair have the same Action, and the rows removed for each kind are twice as
\* many as the pairs found.
C30_DisjointPairsOfOneKind ==
    tm_pc # "call" =>
        /\ DisjointPairs(journaled_pairs)
        /\ DisjointPairs(journal_pairs)
        /\ PairIndices(journaled_pairs) \subseteq 1..Len(InJournaledRows)
        /\ PairIndices(journal_pairs) \subseteq 1..Len(InJournalRows)
        /\ (tm_pc = "returned" /\ keep_unmatched) =>
              /\ Len(InJournaledRows)
                     - Len(SelectSeq(result, LAMBDA r : r.Action = STR_JOURNALED_SHARES))
                 = 2 * Cardinality(journaled_pairs)
              /\ Len(InJournalRows)
                     - Len(SelectSeq(result, LAMBDA r : r.Action = STR_JOURNAL))
                 = 2 * Cardinality(journal_pairs)

\* of three 'Journaled Shares' rows the first two could each be paired with
\* the third; the first was, the second was kept
C30_Witness ==
    /\ tm_pc = "returned"
    /\ keep_unmatched
    /\ Len(InJournaledRows) = 3
    /\ CanPair(InJournaledRows[1], InJournaledRows[3], account_numbers)
    /\ CanPair(InJournaledRows[2], InJournaledRows[3], account_numbers)
    /\ journaled_pairs = {<<1, 3>>}
    /\ Len(result) = 1

====
